---- MODULE Spec2Model ----
(***************************************************************************)
(* Model of the driver screen (src/src/Screen1.tsx, component DriverScreen)*)
(* and of the shared socket it uses (socket module appended to App.tsx),   *)
(* with the launch of the app (checkAuth of App.tsx) and the login screen  *)
(* (src/unnamed/part_000) that lead to it.                                 *)
(*                                                                         *)
(* The React state of the component is the record s (one field per         *)
(* useState), refs and the socket are separate variables, and every        *)
(* closure that outlives the render that created it (alert buttons, the    *)
(* acknowledgement callback, awaited continuations, timers) is kept with   *)
(* the values it captured.  An action is one handler run to completion,    *)
(* followed by the effects React runs after the resulting render.          *)
(* Not modelled: the map (mapRef, mapRegion, animateToLocation), the error *)
(* view of connect_error, and names and addresses.                         *)
(***************************************************************************)
EXTENDS Integers, Sequences, FiniteSets, TLC

\* ------------------------------------------------------------------ bounds
MaxCoord == 2       \* positions are 1..MaxCoord on a line
MaxKm == 1          \* cap of the travelled-distance accumulator
MaxPrompts == 1     \* ride-request alerts that may be open at once
MaxInFlight == 1    \* acknowledgements, route requests and delayed emits outstanding
MaxRetries == 1     \* armed accept retries (once-listeners and their timers)
MaxRoute == 3       \* points of a full route handed to updateVisibleRoute
MaxSaves == 1       \* location POSTs awaiting their response

\* ------------------------------------------------------------- value sets
NoCoord == 0
Coord == 1..MaxCoord
NoId == "none"
RideIds == {"R1", "R2"}
UserIds == {"U1"}
NoOtp == "unset"                       \* undefined
DefaultOtp == "0000"
InputOtps == {"", DefaultOtp, "1234"}   \* what the driver may have typed
EventOtps == {NoOtp, "", "1234"}        \* the otp field of a rideOTP payload
TheDriver == "D1"
Keys == {"authToken", "driverId", "driverName"}

NoRide == [rideId |-> NoId, otp |-> NoOtp, pickup |-> NoCoord, drop |-> NoCoord,
           routeCoords |-> <<>>]
NoUserData == [present |-> FALSE, userId |-> NoId, location |-> NoCoord]

Falsy(str) == str \in {NoOtp, NoId, ""}

Abs(x) == IF x < 0 THEN -x ELSE x
\* haversine(a, b): great-circle distance, here between points of one line
haversine(a, b) == Abs(a - b)

\* the polyline the Route Service answers with for origin a and destination b
RECURSIVE Path(_, _)
Path(a, b) == IF a = b THEN <<a>>
              ELSE <<a>> \o Path(IF a < b THEN a + 1 ELSE a - 1, b)

\* fetchRoute: coords on success, null on a network error or an empty answer
RouteResults(a, b) == {[ok |-> FALSE, coords |-> <<>>], [ok |-> TRUE, coords |-> Path(a, b)]}
AnyRouteResult == UNION {RouteResults(a, b) : a, b \in Coord}

\* a socket.emit: did is the driverId the payload carries (NoId: none in the payload)
Msg(type, did, rideId, userId, loc, dist) ==
    [type |-> type, driverId |-> did, rideId |-> rideId, userId |-> userId, loc |-> loc,
     dist |-> dist]

RemoveAt(seq, i) == SubSeq(seq, 1, i - 1) \o SubSeq(seq, i + 1, Len(seq))

\* --------------------------------------------------------------- variables
VARIABLES
    s,                    \* the component's useState values
    isMounted,            \* isMounted.current
    navigationInterval,   \* navigationInterval.current: "null" | "active" (a cleared id
                          \* counts as null: every use clears it again or overwrites it)
    navClosure,           \* what the interval's callback captured
    routeUpdateThrottle,  \* routeUpdateThrottle.current: "null" | "active" (likewise)
    sock,                 \* socket: "connected" | "connecting" | "closed"
    prompts,              \* open ride-request alerts (top is last), with their closures
    onceConnect,          \* socket.once("connect") retry listeners
    retryTimers,          \* setTimeout(() => acceptRide(id), 1000)
    pendingAcks,          \* acceptRide acknowledgement callbacks not yet called
    pendingPickupRoute,   \* acknowledgement callbacks awaiting fetchRoute
    pendingNav,           \* confirmOTP calls awaiting startNavigation's fetchRoute
    userDataTimers,       \* setTimeout(() => emit getUserDataForDriver, 1000)
    logoutPending,        \* handleLogout awaiting api.post
    store,                \* keys present in AsyncStorage
    locationUpdateCount,  \* locationUpdateCount.current, of which only the remainder
                          \* by SaveEvery is ever looked at
    pendingSaves,         \* saveLocationToDatabase calls awaiting fetch's response
    initialRoute,         \* App's initialRoute: "null" | "Screen1" | "LoginScreen"
    login,                \* LoginScreen: whether it is shown, its loading flag, and
                          \* where its handleLogin stands
    pollInterval,         \* the interval of the effect at 172-185: the rideId its
                          \* callback captured, NoId when no interval is set
    emitted,              \* socket.emit calls of the last step, in order
    alert                 \* Alert shown by the last step

vars == <<s, isMounted, navigationInterval, navClosure, routeUpdateThrottle, sock,
          prompts, onceConnect, retryTimers, pendingAcks, pendingPickupRoute,
          pendingNav, userDataTimers, logoutPending, store, locationUpdateCount,
          pendingSaves, initialRoute, login, pollInterval, emitted, alert>>

\* names of the source for the fields of s
ride == s.ride
rideStatus == s.rideStatus
driverStatus == s.driverStatus
userData == s.userData
userLocation == s.userLocation
travelledKm == s.travelledKm
lastCoord == s.lastCoord
location == s.location
fullRouteCoords == s.fullRouteCoords
visibleRouteCoords == s.visibleRouteCoords
nearestPointIndex == s.nearestPointIndex
isLoading == s.isLoading
enteredOtp == s.enteredOtp
otpModalVisible == s.otpModalVisible
driverId == s.driverId

RideHeld == ride.rideId # NoId

\* -------------------------------------------------------------- effects
\* useEffect at 172-185: runs when rideStatus or ride?.rideId changed
PollEffectEmits(old, new) ==
    IF /\ (new.rideStatus # old.rideStatus \/ new.ride.rideId # old.ride.rideId)
       /\ new.rideStatus = "accepted" /\ new.ride.rideId # NoId
    THEN <<Msg("getUserDataForDriver", NoId, new.ride.rideId, NoId, NoCoord, 0)>>
    ELSE <<>>

\* an effect whose cleanup never clears the interval
PollEffectInterval_NoCleanup(old, new, interval) ==
    IF new.rideStatus = "accepted" /\ new.ride.rideId # NoId THEN new.ride.rideId
    ELSE interval

\* the same effect's interval: when a dependency changed the cleanup (183) clears
\* the interval of the earlier run, and the new run sets one if its condition holds
PollEffectInterval(old, new, interval) ==
    IF new.rideStatus # old.rideStatus \/ new.ride.rideId # old.ride.rideId
    THEN IF new.rideStatus = "accepted" /\ new.ride.rideId # NoId THEN new.ride.rideId
         ELSE NoId
    ELSE interval

\* an interval of that effect is set
pollIntervalActive == pollInterval # NoId

\* useEffect at 239-252
RegisterEffectFires(new) == ~new.isRegistered /\ new.driverId # "" /\ new.location # NoCoord

RegisterEffect(new) ==
    IF RegisterEffectFires(new)
    THEN [new EXCEPT !.isRegistered = TRUE, !.driverStatus = "online"]
    ELSE new

RegisterEffectEmits(new) ==
    IF RegisterEffectFires(new)
    THEN <<Msg("registerDriver", new.driverId, NoId, NoId, new.location, 0)>>
    ELSE <<>>

\* Geolocation.watchPosition of the effect at 629-718
watchActive == isMounted /\ location # NoCoord

\* the render after a handler: setState is ignored once unmounted, otherwise
\* the new state is rendered and the effects whose dependencies changed run
Render(new, emits, shown) ==
    /\ s' = IF isMounted THEN RegisterEffect(new) ELSE s
    /\ emitted' = IF isMounted
                  THEN emits \o PollEffectEmits(s, new) \o RegisterEffectEmits(new)
                  ELSE emits
    /\ alert' = shown
    /\ pollInterval' = IF isMounted THEN PollEffectInterval(s, new, pollInterval)
                       ELSE pollInterval

InitState(did, loc) ==
    [location |-> loc, ride |-> NoRide, userData |-> NoUserData, userLocation |-> NoCoord,
     travelledKm |-> 0, lastCoord |-> NoCoord, otpModalVisible |-> FALSE,
     enteredOtp |-> "", rideStatus |-> "idle", isRegistered |-> FALSE,
     socketConnected |-> FALSE, driverStatus |-> "offline", isLoading |-> FALSE,
     driverId |-> did, fullRouteCoords |-> <<>>,
     visibleRouteCoords |-> <<>>, nearestPointIndex |-> 0]

NoClosure == [location |-> NoCoord, fullRouteCoords |-> <<>>, rideStatus |-> "idle"]

\* route.params: none on app launch (App.tsx), all four after a login
LoginCoords == {MaxCoord}
RouteParams == {[driverId |-> "", location |-> NoCoord]}
               \cup [driverId : {TheDriver}, location : LoginCoords]

\* LoginScreen's state: loading (82), and of its handleLogin (168-274) the await
\* it stands at, getLocation's loop index i and the position requests it has
\* made (130-165), the position it got and whether the login request was sent
NoLogin ==
    [shown |-> FALSE, loading |-> FALSE, stage |-> "idle", i |-> 0, requests |-> 0,
     coords |-> NoCoord, posted |-> FALSE]
LoginShown == [NoLogin EXCEPT !.shown = TRUE]

\* the refs and effects of a screen that is not mounted or has just been mounted
FreshRefs ==
    /\ navigationInterval = "null"
    /\ navClosure = NoClosure
    /\ routeUpdateThrottle = "null"
    /\ sock = "connecting"
    /\ prompts = <<>>
    /\ onceConnect = <<>>
    /\ retryTimers = <<>>
    /\ pendingAcks = <<>>
    /\ pendingPickupRoute = <<>>
    /\ pendingNav = <<>>
    /\ userDataTimers = <<>>
    /\ logoutPending = FALSE
    /\ pollInterval = NoId
    /\ locationUpdateCount = 0
    /\ pendingSaves = <<>>
    /\ alert = "none"

Mounted(p) ==
    /\ s = RegisterEffect(InitState(p.driverId, p.location))
    /\ emitted = RegisterEffectEmits(InitState(p.driverId, p.location))
    /\ store \in IF p.driverId = "" THEN SUBSET Keys ELSE {Keys}
    /\ initialRoute = IF p.driverId = "" THEN "Screen1" ELSE "LoginScreen"
    /\ login = NoLogin
    /\ isMounted = TRUE
    /\ navigationInterval = "null"
    /\ navClosure = NoClosure
    /\ routeUpdateThrottle = "null"
    /\ sock = "connecting"
    /\ prompts = <<>>
    /\ onceConnect = <<>>
    /\ retryTimers = <<>>
    /\ pendingAcks = <<>>
    /\ pendingPickupRoute = <<>>
    /\ pendingNav = <<>>
    /\ userDataTimers = <<>>
    /\ logoutPending = FALSE
    /\ pollInterval = NoId
    /\ locationUpdateCount = 0
    /\ pendingSaves = <<>>
    /\ alert = "none"

\* the app as launched, before checkAuth: no screen yet, anything in the store
InitLaunch ==
    /\ initialRoute = "null"
    /\ login = NoLogin
    /\ store \in SUBSET Keys
    /\ s = InitState("", NoCoord)
    /\ emitted = <<>>
    /\ isMounted = FALSE
    /\ FreshRefs

\* the screen as mounted with any route.params
Init == \E p \in RouteParams : Mounted(p)

\* the screen as mounted by the login screen
InitAfterLogin == \E p \in RouteParams : p.driverId # "" /\ Mounted(p)

\* ------------------------------------------------------------ ride request
Pickups == {1}
Drops == {MaxCoord}
UserCoords == {1}
RequestPayloads ==
    [rideId : RideIds \cup {NoId}, otp : {NoOtp, "1234"}, pickup : Pickups, drop : Drops]

\* what a button of an alert, or a retry, still sees of the render it was made in
Closure(rideId) == [rideId |-> rideId, location |-> s.location, driverId |-> s.driverId]

\* handleRideRequest (739-784)
NewRideRequest(data) ==
    /\ isMounted /\ sock = "connected"
    /\ Len(prompts) < MaxPrompts
    /\ IF data.rideId = NoId
       THEN /\ Render(s, <<>>, "none")
            /\ UNCHANGED prompts
       ELSE LET rideData == [rideId |-> data.rideId,
                             otp |-> IF Falsy(data.otp) THEN DefaultOtp ELSE data.otp,
                             pickup |-> data.pickup, drop |-> data.drop,
                             routeCoords |-> <<>>]
            IN /\ Render([s EXCEPT !.ride = rideData, !.rideStatus = "onTheWay"],
                         <<>>, "newRideRequest")
               /\ prompts' = Append(prompts, Closure(data.rideId))
    /\ UNCHANGED <<isMounted, navigationInterval, navClosure, routeUpdateThrottle, sock,
                   onceConnect, retryTimers, pendingAcks, pendingPickupRoute, pendingNav,
                   userDataTimers, logoutPending, store>>
    /\ UNCHANGED <<locationUpdateCount, pendingSaves, initialRoute, login>>

\* --------------------------------------------------------- accept / reject
Retries == Len(onceConnect) + Len(retryTimers)
InFlight == Len(pendingAcks) + Len(pendingPickupRoute) + Len(pendingNav)
            + Len(userDataTimers)

\* an accept that waits for the acknowledgement before it changes the status
acceptRideState_AfterAck(st) == [st EXCEPT !.isLoading = TRUE]

\* the three set-state calls of acceptRide before its emit (465-467)
acceptRideState(st) ==
    [st EXCEPT !.isLoading = TRUE, !.rideStatus = "accepted", !.driverStatus = "onRide"]

\* acceptRide (443-529) up to the emit; c is the closure the call runs in
acceptRide(c, isRetry) ==
    IF c.rideId = NoId
    THEN /\ Render(s, <<>>, "noRideId")
         /\ UNCHANGED <<sock, onceConnect, pendingAcks>>
    ELSE IF c.driverId = ""
    THEN /\ Render(s, <<>>, "notRegistered")
         /\ UNCHANGED <<sock, onceConnect, pendingAcks>>
    ELSE IF sock # "connected"
    THEN /\ Retries < MaxRetries + (IF isRetry THEN 1 ELSE 0)
         /\ Render(s, <<>>, "reconnecting")
         /\ sock' = "connecting"
         /\ onceConnect' = Append(onceConnect, c)
         /\ UNCHANGED pendingAcks
    ELSE /\ InFlight < MaxInFlight
         /\ Render(acceptRideState(s),
                   <<Msg("acceptRide", c.driverId, c.rideId, NoId, NoCoord, 0)>>, "none")
         /\ pendingAcks' = Append(pendingAcks, c)
         /\ UNCHANGED <<sock, onceConnect>>

\* a reject that forgets the ride but not the status
rejectRideState_KeepsStatus(st) == [st EXCEPT !.ride = NoRide]

\* rejectRide (532-552)
rejectRideState(st) ==
    [st EXCEPT !.ride = NoRide, !.rideStatus = "idle", !.driverStatus = "online",
               !.userData = NoUserData, !.userLocation = NoCoord, !.lastCoord = NoCoord,
               !.fullRouteCoords = <<>>, !.visibleRouteCoords = <<>>]

rejectRide(c) ==
    IF c.rideId = NoId
    THEN Render(s, <<>>, "none")
    ELSE Render(rejectRideState(s),
                <<Msg("rejectRide", c.driverId, c.rideId, NoId, NoCoord, 0)>>,
                "rideRejected")

\* the screen below the alerts reacts to touches
ScreenInteractive == isMounted /\ s.location # NoCoord /\ prompts = <<>>

\* "Accept" of the topmost ride-request alert (773-776)
PromptAccept ==
    /\ prompts # <<>>
    /\ acceptRide(prompts[Len(prompts)], FALSE)
    /\ prompts' = SubSeq(prompts, 1, Len(prompts) - 1)
    /\ UNCHANGED <<isMounted, navigationInterval, navClosure, routeUpdateThrottle,
                   retryTimers, pendingPickupRoute, pendingNav, userDataTimers,
                   logoutPending, store>>
    /\ UNCHANGED <<locationUpdateCount, pendingSaves, initialRoute, login>>

\* "Reject" of the topmost ride-request alert (768-772)
PromptReject ==
    /\ prompts # <<>>
    /\ rejectRide(prompts[Len(prompts)])
    /\ prompts' = SubSeq(prompts, 1, Len(prompts) - 1)
    /\ UNCHANGED <<isMounted, navigationInterval, navClosure, routeUpdateThrottle, sock,
                   onceConnect, retryTimers, pendingAcks, pendingPickupRoute, pendingNav,
                   userDataTimers, logoutPending, store>>
    /\ UNCHANGED <<locationUpdateCount, pendingSaves, initialRoute, login>>

\* the "Accept Ride" button (1115-1127)
PressAccept ==
    /\ ScreenInteractive /\ RideHeld /\ rideStatus = "onTheWay" /\ ~isLoading
    /\ acceptRide(Closure(ride.rideId), FALSE)
    /\ UNCHANGED <<isMounted, navigationInterval, navClosure, routeUpdateThrottle, prompts,
                   retryTimers, pendingPickupRoute, pendingNav, userDataTimers,
                   logoutPending, store>>
    /\ UNCHANGED <<locationUpdateCount, pendingSaves, initialRoute, login>>

\* the "Reject" button (1128-1133)
PressReject ==
    /\ ScreenInteractive /\ RideHeld /\ rideStatus = "onTheWay"
    /\ rejectRide(Closure(ride.rideId))
    /\ UNCHANGED <<isMounted, navigationInterval, navClosure, routeUpdateThrottle, sock,
                   prompts, onceConnect, retryTimers, pendingAcks, pendingPickupRoute,
                   pendingNav, userDataTimers, logoutPending, store>>
    /\ UNCHANGED <<locationUpdateCount, pendingSaves, initialRoute, login>>

\* the retry armed by acceptRide while disconnected (459-461)
RetryTimerFires(i) ==
    /\ i \in 1..Len(retryTimers)
    /\ acceptRide(retryTimers[i], TRUE)
    /\ retryTimers' = RemoveAt(retryTimers, i)
    /\ UNCHANGED <<isMounted, navigationInterval, navClosure, routeUpdateThrottle, prompts,
                   pendingPickupRoute, pendingNav, userDataTimers, logoutPending, store>>
    /\ UNCHANGED <<locationUpdateCount, pendingSaves, initialRoute, login>>

\* the acknowledgement callback of acceptRide (476-527) up to its await
AckResponses == [success : BOOLEAN, userId : UserIds \cup {NoId}, pickup : Pickups]

\* passenger data that loses the acknowledgement's userId
userDataWithId_Anonymous(response) ==
    [present |-> TRUE, userId |-> NoId, location |-> response.pickup]

\* userDataWithId of the callback (481-489)
userDataWithId(response) ==
    [present |-> TRUE, userId |-> response.userId, location |-> response.pickup]

AcceptAck(i, response) ==
    /\ i \in 1..Len(pendingAcks) /\ sock = "connected"
    /\ LET c == pendingAcks[i]
           st == [s EXCEPT !.isLoading = FALSE]
       IN IF ~isMounted \/ ~response.success
          THEN /\ Render(st, <<>>, "none")
               /\ UNCHANGED <<pendingPickupRoute, userDataTimers>>
          ELSE LET st2 == [st EXCEPT
                             !.userData = userDataWithId(response),
                             !.userLocation = response.pickup]
               IN IF c.location # NoCoord
                  THEN /\ Render(st2, <<>>, "none")
                       /\ pendingPickupRoute' = Append(pendingPickupRoute,
                              [rideId |-> c.rideId, location |-> c.location,
                               driverId |-> c.driverId,
                               userId |-> response.userId, pickup |-> response.pickup])
                       /\ UNCHANGED userDataTimers
                  ELSE /\ Render(st2, <<Msg("driverAcceptedRide", c.driverId, c.rideId,
                                            response.userId,
                                            c.location, 0)>>, "none")
                       /\ userDataTimers' = Append(userDataTimers, c.rideId)
                       /\ UNCHANGED pendingPickupRoute
    /\ pendingAcks' = RemoveAt(pendingAcks, i)
    /\ UNCHANGED <<isMounted, navigationInterval, navClosure, routeUpdateThrottle, sock,
                   prompts, onceConnect, retryTimers, pendingNav, logoutPending, store>>
    /\ UNCHANGED <<locationUpdateCount, pendingSaves, initialRoute, login>>

\* the rest of the acknowledgement callback, after await fetchRoute (504-525)
PickupRouteResolves(i, result) ==
    /\ i \in 1..Len(pendingPickupRoute)
    /\ LET p == pendingPickupRoute[i]
       IN /\ result \in RouteResults(p.location, p.pickup)
          /\ Render(IF result.ok /\ RideHeld
                    THEN [s EXCEPT !.ride.routeCoords = result.coords]
                    ELSE s,
                    <<Msg("driverAcceptedRide", p.driverId, p.rideId, p.userId, p.location, 0)>>,
                    "none")
          /\ userDataTimers' = Append(userDataTimers, p.rideId)
    /\ pendingPickupRoute' = RemoveAt(pendingPickupRoute, i)
    /\ UNCHANGED <<isMounted, navigationInterval, navClosure, routeUpdateThrottle, sock,
                   prompts, onceConnect, retryTimers, pendingAcks, pendingNav,
                   logoutPending, store>>
    /\ UNCHANGED <<locationUpdateCount, pendingSaves, initialRoute, login>>

\* the delayed request of the acknowledgement callback (523-525)
UserDataTimerFires(i) ==
    /\ i \in 1..Len(userDataTimers)
    /\ Render(s, <<Msg("getUserDataForDriver", NoId, userDataTimers[i], NoId, NoCoord, 0)>>,
              "none")
    /\ userDataTimers' = RemoveAt(userDataTimers, i)
    /\ UNCHANGED <<isMounted, navigationInterval, navClosure, routeUpdateThrottle, sock,
                   prompts, onceConnect, retryTimers, pendingAcks, pendingPickupRoute,
                   pendingNav, logoutPending, store>>
    /\ UNCHANGED <<locationUpdateCount, pendingSaves, initialRoute, login>>

\* ------------------------------------------------------------- OTP, start
\* the screen's buttons are reachable when no modal covers them
ButtonsInteractive == ScreenInteractive /\ ~otpModalVisible
ModalInteractive == ScreenInteractive /\ otpModalVisible

\* "Enter OTP & Start Ride" (1137-1144)
OpenOtpModal ==
    /\ ButtonsInteractive /\ RideHeld /\ rideStatus = "accepted"
    /\ Render([s EXCEPT !.otpModalVisible = TRUE], <<>>, "none")
    /\ UNCHANGED <<isMounted, navigationInterval, navClosure, routeUpdateThrottle, sock,
                   prompts, onceConnect, retryTimers, pendingAcks, pendingPickupRoute,
                   pendingNav, userDataTimers, logoutPending, store>>
    /\ UNCHANGED <<locationUpdateCount, pendingSaves, initialRoute, login>>

\* the modal's Cancel button (1182-1187)
CancelOtpModal ==
    /\ ModalInteractive
    /\ Render([s EXCEPT !.otpModalVisible = FALSE], <<>>, "none")
    /\ UNCHANGED <<isMounted, navigationInterval, navClosure, routeUpdateThrottle, sock,
                   prompts, onceConnect, retryTimers, pendingAcks, pendingPickupRoute,
                   pendingNav, userDataTimers, logoutPending, store>>
    /\ UNCHANGED <<locationUpdateCount, pendingSaves, initialRoute, login>>

\* the modal's TextInput (1172-1180)
TypeOtp(code) ==
    /\ ModalInteractive /\ code # enteredOtp
    /\ Render([s EXCEPT !.enteredOtp = code], <<>>, "none")
    /\ UNCHANGED <<isMounted, navigationInterval, navClosure, routeUpdateThrottle, sock,
                   prompts, onceConnect, retryTimers, pendingAcks, pendingPickupRoute,
                   pendingNav, userDataTimers, logoutPending, store>>
    /\ UNCHANGED <<locationUpdateCount, pendingSaves, initialRoute, login>>

\* a comparison that lets every code pass
otpAccepted_AnyCode(entered, otp) == TRUE

\* the comparison of confirmOTP (564)
otpAccepted(entered, otp) == entered = otp

\* confirmOTP (556-592) up to await startNavigation()
ConfirmOTP ==
    /\ ModalInteractive
    /\ IF ~RideHeld
       THEN /\ Render(s, <<>>, "none")
            /\ UNCHANGED pendingNav
       ELSE IF Falsy(ride.otp)
       THEN /\ Render(s, <<>>, "otpNotReceived")
            /\ UNCHANGED pendingNav
       ELSE IF otpAccepted(enteredOtp, ride.otp)
       THEN /\ InFlight < MaxInFlight
            /\ Render([s EXCEPT !.rideStatus = "started", !.otpModalVisible = FALSE,
                                !.enteredOtp = ""], <<>>, "none")
            /\ pendingNav' = Append(pendingNav,
                   [rideId |-> ride.rideId, pickup |-> ride.pickup, drop |-> ride.drop,
                    userId |-> userData.userId, location |-> location,
                    driverId |-> driverId,
                    fullRouteCoords |-> fullRouteCoords, rideStatus |-> rideStatus])
       ELSE /\ Render(s, <<>>, "invalidOtp")
            /\ UNCHANGED pendingNav
    /\ UNCHANGED <<isMounted, navigationInterval, navClosure, routeUpdateThrottle, sock,
                   prompts, onceConnect, retryTimers, pendingAcks, pendingPickupRoute,
                   userDataTimers, logoutPending, store>>
    /\ UNCHANGED <<locationUpdateCount, pendingSaves, initialRoute, login>>

\* a start that shows no route
startNavigationState_FullOnly(st, routeCoords) == [st EXCEPT !.fullRouteCoords = routeCoords]

\* the two set-state calls of startNavigation (398-399)
startNavigationState(st, routeCoords) ==
    [st EXCEPT !.fullRouteCoords = routeCoords, !.visibleRouteCoords = routeCoords]

\* a test that takes every answer of the Route Service for a route
hasRoute_Always(result) == TRUE

\* the test of startNavigation on what fetchRoute returned (394)
hasRoute(result) == result.ok /\ Len(result.coords) > 0

\* startNavigation (387-415) after its await, then the rest of confirmOTP (574-588)
NavRouteResolves(i, result) ==
    /\ i \in 1..Len(pendingNav)
    /\ LET p == pendingNav[i]
       IN /\ result \in RouteResults(p.pickup, p.drop)
          /\ IF hasRoute(result)
             THEN /\ Render(startNavigationState(s, result.coords),
                            <<Msg("driverStartedRide", p.driverId, p.rideId, p.userId,
                                  p.location, 0)>>,
                            "otpVerified")
                  /\ navigationInterval' = "active"
                  /\ navClosure' = [location |-> p.location,
                                    fullRouteCoords |-> p.fullRouteCoords,
                                    rideStatus |-> p.rideStatus]
             ELSE /\ Render(s, <<Msg("driverStartedRide", p.driverId, p.rideId, p.userId,
                                      p.location, 0)>>,
                            "otpVerified")
                  /\ UNCHANGED <<navigationInterval, navClosure>>
    /\ pendingNav' = RemoveAt(pendingNav, i)
    /\ UNCHANGED <<isMounted, routeUpdateThrottle, sock, prompts, onceConnect, retryTimers,
                   pendingAcks, pendingPickupRoute, userDataTimers, logoutPending, store>>
    /\ UNCHANGED <<locationUpdateCount, pendingSaves, initialRoute, login>>

\* a stopNavigation that leaves the interval as it is
stopNavigation_KeepsInterval == navigationInterval

\* stopNavigation (418-424)
stopNavigation == "null"

\* a completion that keeps the distance accumulator
completeRideState_KeepsDistance(st) ==
    [st EXCEPT !.rideStatus = "completed", !.driverStatus = "online", !.ride = NoRide,
               !.userData = NoUserData, !.userLocation = NoCoord]

\* completeRide (595-626)
completeRideState(st) ==
    [st EXCEPT !.rideStatus = "completed", !.driverStatus = "online", !.ride = NoRide,
               !.travelledKm = 0, !.userData = NoUserData, !.userLocation = NoCoord,
               !.lastCoord = NoCoord, !.fullRouteCoords = <<>>,
               !.visibleRouteCoords = <<>>, !.nearestPointIndex = 0]

CompleteRide ==
    /\ ButtonsInteractive /\ RideHeld /\ rideStatus = "started"
    /\ navigationInterval' = stopNavigation
    /\ Render(completeRideState(s),
              <<Msg("driverCompletedRide", driverId, ride.rideId, userData.userId, NoCoord,
                    travelledKm),
                Msg("completeRide", driverId, ride.rideId, NoId, NoCoord, travelledKm)>>,
              "rideCompleted")
    /\ UNCHANGED <<isMounted, navClosure, routeUpdateThrottle, sock, prompts, onceConnect,
                   retryTimers, pendingAcks, pendingPickupRoute, pendingNav, userDataTimers,
                   logoutPending, store>>
    /\ UNCHANGED <<locationUpdateCount, pendingSaves, initialRoute, login>>

\* ------------------------------------------------------- route truncation
\* findNearestPointOnRoute (287-305): the scan from index i with the best so far
RECURSIVE ScanNearest(_, _, _, _, _)
ScanNearest(cur, routeCoords, i, minDistance, nearestIndex) ==
    IF i > Len(routeCoords) THEN [index |-> nearestIndex, distance |-> minDistance]
    ELSE LET distance == haversine(cur, routeCoords[i])
         IN IF minDistance < 0 \/ distance < minDistance
            THEN ScanNearest(cur, routeCoords, i + 1, distance, i)
            ELSE ScanNearest(cur, routeCoords, i + 1, minDistance, nearestIndex)

\* a scan that stops at the first point
findNearestPointOnRoute_First(cur, routeCoords) ==
    [index |-> 1, distance |-> haversine(cur, routeCoords[1])]

\* a scan in which a later point at the same distance wins
findNearestPointOnRoute_Last(cur, routeCoords) ==
    IF Len(routeCoords) = 0 THEN [index |-> 0, distance |-> -1]
    ELSE LET i == CHOOSE k \in 1..Len(routeCoords) :
                     \A j \in 1..Len(routeCoords) :
                         \/ haversine(cur, routeCoords[k]) < haversine(cur, routeCoords[j])
                         \/ haversine(cur, routeCoords[k]) = haversine(cur, routeCoords[j])
                            /\ j <= k
         IN [index |-> i, distance |-> haversine(cur, routeCoords[i])]

\* null, the result for an empty route (288)
NoPoint == [index |-> 0, distance |-> -1]

\* index is 1-based here (the source's index + 1); minDistance -1 stands for Infinity
findNearestPointOnRoute(cur, routeCoords) ==
    IF Len(routeCoords) = 0 THEN NoPoint ELSE ScanNearest(cur, routeCoords, 1, -1, 1)

\* updateVisibleRoute (308-325), run with the values cl its closure holds
updateVisibleRoute(cl, st) ==
    IF cl.location = NoCoord \/ Len(cl.fullRouteCoords) = 0 \/ cl.rideStatus # "started"
    THEN st
    ELSE LET nearestPoint == findNearestPointOnRoute(cl.location, cl.fullRouteCoords)
             remainingRoute == SubSeq(cl.fullRouteCoords, nearestPoint.index,
                                      Len(cl.fullRouteCoords))
         IN IF Len(remainingRoute) > 0
            THEN [st EXCEPT !.visibleRouteCoords = <<cl.location>> \o remainingRoute,
                            !.nearestPointIndex = nearestPoint.index - 1]
            ELSE st

\* the interval's callback (406-408): throttledUpdateVisibleRoute (328-336)
NavTick ==
    /\ navigationInterval = "active"
    /\ routeUpdateThrottle' = "active"
    /\ Render(s, <<>>, "none")
    /\ UNCHANGED <<isMounted, navigationInterval, navClosure, sock, prompts, onceConnect,
                   retryTimers, pendingAcks, pendingPickupRoute, pendingNav, userDataTimers,
                   logoutPending, store>>
    /\ UNCHANGED <<locationUpdateCount, pendingSaves, initialRoute, login>>

\* the debounce timeout (333-335)
ThrottleFires ==
    /\ routeUpdateThrottle = "active"
    /\ routeUpdateThrottle' = "null"
    /\ Render(updateVisibleRoute(navClosure, s), <<>>, "none")
    /\ UNCHANGED <<isMounted, navigationInterval, navClosure, sock, prompts, onceConnect,
                   retryTimers, pendingAcks, pendingPickupRoute, pendingNav, userDataTimers,
                   logoutPending, store>>
    /\ UNCHANGED <<locationUpdateCount, pendingSaves, initialRoute, login>>

\* updateVisibleRoute (308-325) as the current render defines it: its closure
\* holds that render's location, fullRouteCoords and rideStatus
CallUpdateVisibleRoute ==
    /\ Render(updateVisibleRoute([location |-> location, fullRouteCoords |-> fullRouteCoords,
                                  rideStatus |-> rideStatus], s), <<>>, "none")
    /\ UNCHANGED <<isMounted, navigationInterval, navClosure, routeUpdateThrottle, sock,
                   prompts, onceConnect, retryTimers, pendingAcks, pendingPickupRoute,
                   pendingNav, userDataTimers, logoutPending, store>>
    /\ UNCHANGED <<locationUpdateCount, pendingSaves, initialRoute, login>>

\* --------------------------------------------------------- inbound events
Delivered == isMounted /\ sock = "connected"      \* the screen's listeners are attached

\* handleRideOTP (832-838)
RideOTP(rideId, otp) ==
    /\ Delivered
    /\ Render(IF RideHeld /\ ride.rideId = rideId THEN [s EXCEPT !.ride.otp = otp] ELSE s,
              <<>>, "none")
    /\ UNCHANGED <<isMounted, navigationInterval, navClosure, routeUpdateThrottle, sock,
                   prompts, onceConnect, retryTimers, pendingAcks, pendingPickupRoute,
                   pendingNav, userDataTimers, logoutPending, store>>
    /\ UNCHANGED <<locationUpdateCount, pendingSaves, initialRoute, login>>

\* handleUserLiveLocationUpdate (786-813)
UserLiveLocationUpdate(c) ==
    /\ Delivered
    /\ Render([s EXCEPT !.userLocation = c,
                        !.userData = IF s.userData.present
                                     THEN [s.userData EXCEPT !.location = c]
                                     ELSE s.userData],
              <<>>, "none")
    /\ UNCHANGED <<isMounted, navigationInterval, navClosure, routeUpdateThrottle, sock,
                   prompts, onceConnect, retryTimers, pendingAcks, pendingPickupRoute,
                   pendingNav, userDataTimers, logoutPending, store>>
    /\ UNCHANGED <<locationUpdateCount, pendingSaves, initialRoute, login>>

\* handleUserDataForDriver (815-830)
UserDataForDriver(c, uid) ==
    /\ Delivered
    /\ Render([s EXCEPT !.userLocation = c,
                        !.userData = IF s.userData.present /\ Falsy(s.userData.userId)
                                        /\ ~Falsy(uid)
                                     THEN [s.userData EXCEPT !.userId = uid]
                                     ELSE s.userData],
              <<>>, "none")
    /\ UNCHANGED <<isMounted, navigationInterval, navClosure, routeUpdateThrottle, sock,
                   prompts, onceConnect, retryTimers, pendingAcks, pendingPickupRoute,
                   pendingNav, userDataTimers, logoutPending, store>>
    /\ UNCHANGED <<locationUpdateCount, pendingSaves, initialRoute, login>>

\* handleRideCancelled (858-882)
rideCancelledState(st) ==
    [st EXCEPT !.ride = NoRide, !.userData = NoUserData, !.userLocation = NoCoord,
               !.travelledKm = 0, !.lastCoord = NoCoord, !.rideStatus = "idle",
               !.driverStatus = "online", !.fullRouteCoords = <<>>,
               !.visibleRouteCoords = <<>>, !.nearestPointIndex = 0]

RideCancelled(rideId) ==
    /\ Delivered
    /\ IF RideHeld /\ ride.rideId = rideId
       THEN /\ navigationInterval' = stopNavigation
            /\ Render(rideCancelledState(s),
                      <<Msg("driverRideCancelled", driverId, ride.rideId, userData.userId,
                            NoCoord, 0)>>,
                      "rideCancelled")
       ELSE /\ Render(s, <<>>, "none")
            /\ UNCHANGED navigationInterval
    /\ UNCHANGED <<isMounted, navClosure, routeUpdateThrottle, sock, prompts, onceConnect,
                   retryTimers, pendingAcks, pendingPickupRoute, pendingNav, userDataTimers,
                   logoutPending, store>>
    /\ UNCHANGED <<locationUpdateCount, pendingSaves, initialRoute, login>>

\* a pre-emption that resets the status only
rideAlreadyAcceptedState_KeepsRide(st) ==
    [st EXCEPT !.rideStatus = "idle", !.driverStatus = "online"]

\* handleRideAlreadyAccepted (884-900)
rideAlreadyAcceptedState(st) ==
    [st EXCEPT !.ride = NoRide, !.userData = NoUserData, !.userLocation = NoCoord,
               !.travelledKm = 0, !.lastCoord = NoCoord, !.rideStatus = "idle",
               !.driverStatus = "online"]

RideAlreadyAccepted(rideId) ==
    /\ Delivered
    /\ IF RideHeld /\ ride.rideId = rideId
       THEN Render(rideAlreadyAcceptedState(s), <<>>, "rideTaken")
       ELSE Render(s, <<>>, "none")
    /\ UNCHANGED <<isMounted, navigationInterval, navClosure, routeUpdateThrottle, sock,
                   prompts, onceConnect, retryTimers, pendingAcks, pendingPickupRoute,
                   pendingNav, userDataTimers, logoutPending, store>>
    /\ UNCHANGED <<locationUpdateCount, pendingSaves, initialRoute, login>>

\* the interval of the effect at 177-181
PollTick ==
    /\ pollIntervalActive
    /\ Render(s, <<Msg("getUserDataForDriver", NoId, pollInterval, NoId, NoCoord, 0)>>, "none")
    /\ UNCHANGED <<isMounted, navigationInterval, navClosure, routeUpdateThrottle, sock,
                   prompts, onceConnect, retryTimers, pendingAcks, pendingPickupRoute,
                   pendingNav, userDataTimers, logoutPending, store>>
    /\ UNCHANGED <<locationUpdateCount, pendingSaves, initialRoute, login>>

\* -------------------------------------------------------------- connection
\* a disconnect that keeps the passenger's data
handleDisconnect_KeepsPassenger(st) ==
    [st EXCEPT !.socketConnected = FALSE, !.isRegistered = FALSE, !.driverStatus = "offline"]

\* handleDisconnect (840-850)
handleDisconnect(st) ==
    LET st1 == [st EXCEPT !.socketConnected = FALSE, !.isRegistered = FALSE,
                          !.driverStatus = "offline"]
    IN IF st.ride.rideId # NoId
       THEN [st1 EXCEPT !.userData = NoUserData, !.userLocation = NoCoord]
       ELSE st1

\* the connection drops; acknowledgements of the lost connection never arrive
Disconnect ==
    /\ sock = "connected"
    /\ sock' = "connecting"
    /\ pendingAcks' = <<>>
    /\ Render(handleDisconnect(s), <<>>,
              IF isMounted /\ RideHeld THEN "connectionLost" ELSE "none")
    /\ UNCHANGED <<isMounted, navigationInterval, navClosure, routeUpdateThrottle, prompts,
                   onceConnect, retryTimers, pendingPickupRoute, pendingNav, userDataTimers,
                   logoutPending, store>>
    /\ UNCHANGED <<locationUpdateCount, pendingSaves, initialRoute, login>>

\* a listener added with socket.on would stay for every later connect
listenersAfterConnect_On(listeners) == listeners

\* socket.once (459): the listeners are removed when the event has called them
listenersAfterConnect(listeners) == <<>>

\* handleConnect (722-737)
handleConnect(st) ==
    LET st1 == [st EXCEPT !.socketConnected = TRUE]
    IN IF st.location # NoCoord /\ st.driverId # ""
       THEN [st1 EXCEPT !.isRegistered = TRUE, !.driverStatus = "online"]
       ELSE st1

\* a connect that registers nobody
handleConnectEmits_Silent(st) == <<>>

\* the emit of handleConnect (726-733)
handleConnectEmits(st) ==
    IF st.location # NoCoord /\ st.driverId # ""
    THEN <<Msg("registerDriver", st.driverId, NoId, NoId, st.location, 0)>>
    ELSE <<>>

\* the socket connects: handleConnect, then the once-listeners arm their timers
Connect ==
    /\ sock = "connecting"
    /\ sock' = "connected"
    /\ Render(handleConnect(s), IF isMounted THEN handleConnectEmits(s) ELSE <<>>, "none")
    /\ retryTimers' = retryTimers \o onceConnect
    /\ onceConnect' = listenersAfterConnect(onceConnect)
    /\ UNCHANGED <<isMounted, navigationInterval, navClosure, routeUpdateThrottle, prompts,
                   pendingAcks, pendingPickupRoute, pendingNav, userDataTimers,
                   logoutPending, store>>
    /\ UNCHANGED <<locationUpdateCount, pendingSaves, initialRoute, login>>

\* ---------------------------------------------------------------- location
\* saveLocationToDatabase persists one sample in SaveEvery (192)
SaveEvery == 5

\* a save for every second sample
saveDue_EverySecond(count) == count % 2 = 0

\* the test of saveLocationToDatabase on the counter it has just incremented (191-194)
saveDue(count) == count % SaveEvery = 0

\* what saveLocationToDatabase (188-236) holds while it awaits fetch: its argument
\* and the driverId, driverStatus and ride?.rideId of the render it was made in
SaveClosure(c) ==
    [location |-> c, driverId |-> driverId,
     status |-> IF driverStatus = "onRide" THEN "onRide" ELSE "Live",
     rideId |-> IF driverStatus = "onRide" THEN ride.rideId ELSE NoId]

\* the rest of saveLocationToDatabase (205-229): ok is response.ok, FALSE also
\* stands for a fetch that threw
SaveLocationResolves(i, ok) ==
    /\ i \in 1..Len(pendingSaves)
    /\ pendingSaves' = RemoveAt(pendingSaves, i)
    /\ LET p == pendingSaves[i]
       IN Render(s, IF ok /\ sock = "connected"
                    THEN <<Msg("driverLocationUpdate", p.driverId, p.rideId, NoId,
                               p.location, 0)>>
                    ELSE <<>>, "none")
    /\ UNCHANGED <<isMounted, navigationInterval, navClosure, routeUpdateThrottle, sock,
                   prompts, onceConnect, retryTimers, pendingAcks, pendingPickupRoute,
                   pendingNav, userDataTimers, logoutPending, store, locationUpdateCount>>
    /\ UNCHANGED <<initialRoute, login>>

\* the success callback of watchPosition (658-689)
WatchSample(c) ==
    /\ watchActive
    /\ LET dist == IF lastCoord # NoCoord THEN haversine(lastCoord, c) ELSE 0
       IN /\ travelledKm + dist <= MaxKm
          /\ Render([s EXCEPT !.location = c, !.travelledKm = @ + dist, !.lastCoord = c],
                    <<>>, "none")
    /\ locationUpdateCount' = (locationUpdateCount + 1) % SaveEvery
    /\ IF saveDue(locationUpdateCount + 1)
       THEN /\ Len(pendingSaves) < MaxSaves
            /\ pendingSaves' = Append(pendingSaves, SaveClosure(c))
       ELSE UNCHANGED pendingSaves
    /\ UNCHANGED <<isMounted, navigationInterval, navClosure, routeUpdateThrottle, sock,
                   prompts, onceConnect, retryTimers, pendingAcks, pendingPickupRoute,
                   pendingNav, userDataTimers, logoutPending, store>>
    /\ UNCHANGED <<initialRoute, login>>

\* the same callback called for two samples one after the other, before the
\* render of the first has made the effect (629-718) replace the watch: both
\* calls read the lastCoord and the saveLocationToDatabase of one closure
WatchSamplesBackToBack(c1, c2) ==
    /\ watchActive
    /\ LET dist1 == IF lastCoord # NoCoord THEN haversine(lastCoord, c1) ELSE 0
           dist2 == IF lastCoord # NoCoord THEN haversine(lastCoord, c2) ELSE 0
       IN /\ travelledKm + dist1 + dist2 <= MaxKm
          /\ Render([s EXCEPT !.location = c2, !.travelledKm = @ + dist1 + dist2,
                              !.lastCoord = c2], <<>>, "none")
    /\ locationUpdateCount' = (locationUpdateCount + 2) % SaveEvery
    /\ IF saveDue(locationUpdateCount + 1) \/ saveDue(locationUpdateCount + 2)
       THEN /\ Len(pendingSaves) < MaxSaves
            /\ pendingSaves' =
                  Append(pendingSaves,
                         SaveClosure(IF saveDue(locationUpdateCount + 1) THEN c1 ELSE c2))
       ELSE UNCHANGED pendingSaves
    /\ UNCHANGED <<isMounted, navigationInterval, navClosure, routeUpdateThrottle, sock,
                   prompts, onceConnect, retryTimers, pendingAcks, pendingPickupRoute,
                   pendingNav, userDataTimers, logoutPending, store>>
    /\ UNCHANGED <<initialRoute, login>>

\* Geolocation.getCurrentPosition of loadDriverInfo (117-135) or "Retry Location" (949-970)
GetCurrentPosition(c) ==
    /\ isMounted /\ location = NoCoord
    /\ Render([s EXCEPT !.location = c], <<>>, "none")
    /\ UNCHANGED <<isMounted, navigationInterval, navClosure, routeUpdateThrottle, sock,
                   prompts, onceConnect, retryTimers, pendingAcks, pendingPickupRoute,
                   pendingNav, userDataTimers, logoutPending, store>>
    /\ UNCHANGED <<locationUpdateCount, pendingSaves, initialRoute, login>>

\* ----------------------------------------------------- unmount, identity
\* the cleanup of the effect at 87-97: what it leaves in the two timer refs
unmountInterval == "null"
unmountThrottle == "null"
\* the cleanup of the effect at 172-185 on unmount (183)
unmountPoll == NoId

\* loadDriverInfo (100-169)
LoadDriverInfo ==
    /\ isMounted /\ driverId = ""
    /\ IF Keys \subseteq store
       THEN /\ Render([s EXCEPT !.driverId = TheDriver, !.driverStatus = "online"],
                      <<>>, "none")
            /\ UNCHANGED <<isMounted, navigationInterval, routeUpdateThrottle, store>>
       ELSE /\ store' = {}
            /\ isMounted' = FALSE
            /\ navigationInterval' = unmountInterval
            /\ routeUpdateThrottle' = unmountThrottle
            /\ pollInterval' = unmountPoll
            /\ UNCHANGED s
            /\ emitted' = <<>>
            /\ alert' = "none"
    /\ login' = IF Keys \subseteq store THEN login ELSE LoginShown
    /\ UNCHANGED <<navClosure, sock, prompts, onceConnect, retryTimers, pendingAcks,
                   pendingPickupRoute, pendingNav, userDataTimers, logoutPending>>
    /\ UNCHANGED <<locationUpdateCount, pendingSaves, initialRoute>>

\* the Logout button (1157-1165): handleLogout (427-440) up to await api.post
LogoutPress ==
    /\ ButtonsInteractive /\ ~RideHeld /\ ~logoutPending
    /\ logoutPending' = TRUE
    /\ Render(s, <<>>, "none")
    /\ UNCHANGED <<isMounted, navigationInterval, navClosure, routeUpdateThrottle, sock,
                   prompts, onceConnect, retryTimers, pendingAcks, pendingPickupRoute,
                   pendingNav, userDataTimers, store>>
    /\ UNCHANGED <<locationUpdateCount, pendingSaves, initialRoute, login>>

\* the reason socket.io gives the disconnect event of socket.disconnect()
ClientDisconnect == "io client disconnect"

\* a handler that calls socket.connect() whatever the reason
reconnectsManually_Always(reason) == TRUE

\* the module's disconnect handler (App.tsx 208-214): it calls socket.connect()
\* after a disconnect by the server only
reconnectsManually(reason) == reason = "io server disconnect"

\* the rest of handleLogout: storage cleared, socket.disconnect(), navigation.replace
LogoutResolves(ok) ==
    /\ logoutPending
    /\ logoutPending' = FALSE
    /\ IF ok
       THEN /\ store' = {}
            /\ sock' = IF reconnectsManually(ClientDisconnect) THEN "connecting" ELSE "closed"
            /\ pendingAcks' = <<>>
            /\ s' = IF isMounted /\ sock = "connected" THEN handleDisconnect(s) ELSE s
            /\ isMounted' = FALSE
            /\ navigationInterval' = unmountInterval
            /\ routeUpdateThrottle' = unmountThrottle
            /\ pollInterval' = unmountPoll
            /\ emitted' = <<>>
            /\ alert' = "none"
       ELSE /\ Render(s, <<>>, "logoutError")
            /\ UNCHANGED <<store, sock, pendingAcks, isMounted, navigationInterval,
                           routeUpdateThrottle>>
    /\ login' = IF ok THEN LoginShown ELSE login
    /\ UNCHANGED <<navClosure, prompts, onceConnect, retryTimers, pendingPickupRoute,
                   pendingNav, userDataTimers>>
    /\ UNCHANGED <<locationUpdateCount, pendingSaves, initialRoute>>

\* ------------------------------------------------------- launch and login
\* the navigator shows Screen1 with route.params p: a new screen, new refs
MountScreen1(p) ==
    /\ s' = RegisterEffect(InitState(p.driverId, p.location))
    /\ emitted' = RegisterEffectEmits(InitState(p.driverId, p.location))
    /\ isMounted' = TRUE
    /\ navigationInterval' = "null"
    /\ navClosure' = NoClosure
    /\ routeUpdateThrottle' = "null"
    /\ pollInterval' = NoId
    /\ locationUpdateCount' = 0

\* how AsyncStorage serves checkAuth: every call succeeds, a getItem rejects, or
\* the setItem of initialParams rejects
AuthOutcomes == {"ok", "readFails", "writeFails"}

\* a check that is content with the token alone
authenticated_TokenOnly(keys) == "authToken" \in keys

\* the condition of checkAuth (37): token && driverId && driverName
authenticated(keys) == Keys \subseteq keys

\* checkAuth (30-90) of App.tsx. With all three keys read, setInitialRoute("Screen1")
\* (41) lets the navigator mount Screen1 without route.params; if the setItem
\* after it rejects, the catch (81-85) clears the store under the mounted screen and
\* sets initialRoute again, which the mounted navigator does not follow. An
\* AsyncStorage error has no response, so the 404 branch (62-79) is never taken.
CheckAuth(outcome) ==
    /\ initialRoute = "null"
    /\ outcome = "writeFails" => authenticated(store)
    /\ IF outcome # "readFails" /\ authenticated(store)
       THEN /\ MountScreen1([driverId |-> "", location |-> NoCoord])
            /\ initialRoute' = IF outcome = "ok" THEN "Screen1" ELSE "LoginScreen"
            /\ store' = IF outcome = "ok" THEN store ELSE {}
            /\ UNCHANGED login
       ELSE /\ initialRoute' = "LoginScreen"
            /\ store' = IF outcome = "ok" THEN store ELSE {}
            /\ login' = LoginShown
            /\ emitted' = <<>>
            /\ UNCHANGED <<s, isMounted, navigationInterval, navClosure, routeUpdateThrottle,
                           pollInterval, locationUpdateCount>>
    /\ alert' = "none"
    /\ UNCHANGED <<sock, prompts, onceConnect, retryTimers, pendingAcks, pendingPickupRoute,
                   pendingNav, userDataTimers, logoutPending, pendingSaves>>

\* getLocation's default for retries (130)
DefaultRetries == 2

\* the frame of LoginScreen's handlers: Screen1 is not there
LoginFrame ==
    UNCHANGED <<s, isMounted, navigationInterval, navClosure, routeUpdateThrottle, sock,
                prompts, onceConnect, retryTimers, pendingAcks, pendingPickupRoute,
                pendingNav, userDataTimers, logoutPending, locationUpdateCount,
                pendingSaves, initialRoute, pollInterval>>

\* the Login button (300-304): handleLogin (168-274) up to its first await;
\* filled says whether both inputs are non-empty
LoginPress(filled) ==
    /\ login.shown /\ ~login.loading
    /\ login' = IF filled
                THEN [login EXCEPT !.loading = TRUE, !.stage = "permission", !.i = 0,
                                   !.requests = 0, !.coords = NoCoord, !.posted = FALSE]
                ELSE login
    /\ alert' = IF filled THEN "none" ELSE "inputError"
    /\ emitted' = <<>>
    /\ UNCHANGED store
    /\ LoginFrame

\* requestLocationPermission resolves (184-190); if granted, getLocation (130-165)
\* starts and makes its first position request
PermissionResolves(granted) ==
    /\ login.shown /\ login.stage = "permission"
    /\ login' = IF granted
                THEN [login EXCEPT !.stage = "locating", !.i = 0, !.requests = 1]
                ELSE [login EXCEPT !.stage = "idle", !.loading = FALSE]
    /\ alert' = IF granted THEN "none" ELSE "permissionDenied"
    /\ emitted' = <<>>
    /\ UNCHANGED store
    /\ LoginFrame

\* the alert of handleLogin's catch for the error getLocation threw (243-269)
LocationErrorAlert(code) ==
    CASE code = 1 -> "permissionRequired"
      [] code = 2 -> "enableHighAccuracy"
      [] code = 3 -> "gpsTimeout"
      [] OTHER -> "gpsLoginError"

\* a loop that goes round once more than retries allows
lastAttempt_OneMore(i, retries) == i = retries + 1

\* the test of getLocation's catch (160): i === retries
lastAttempt(i, retries) == i = retries

\* Geolocation.getCurrentPosition of getLocation answers (135-161): with a
\* position c, getLocation returns it and handleLogin sends the login request
\* (196-201); with an error (code), the loop asks again unless this was the last
\* attempt, and then handleLogin's catch and finally run (243-272)
PositionResolves(ok, c, code) ==
    /\ login.shown /\ login.stage = "locating"
    /\ IF ok
       THEN /\ login' = [login EXCEPT !.stage = "posting", !.coords = c, !.posted = TRUE]
            /\ alert' = "none"
       ELSE IF lastAttempt(login.i, DefaultRetries)
       THEN /\ login' = [login EXCEPT !.stage = "idle", !.loading = FALSE]
            /\ alert' = LocationErrorAlert(code)
       ELSE /\ login' = [login EXCEPT !.i = @ + 1, !.requests = @ + 1]
            /\ alert' = IF code = 2 THEN "enableHighAccuracy" ELSE "none"
    /\ emitted' = <<>>
    /\ UNCHANGED store
    /\ LoginFrame

\* api.post("/drivers/login") answers (196-242): status 200, another status, or an
\* error; on 200 the credentials are stored and Screen1 replaces LoginScreen
LoginOutcomes == {"ok", "refused", "error"}

LoginResponds(outcome) ==
    /\ login.shown /\ login.stage = "posting"
    /\ IF outcome = "ok"
       THEN /\ store' = Keys
            /\ login' = NoLogin
            /\ MountScreen1([driverId |-> TheDriver, location |-> login.coords])
            /\ alert' = "none"
       ELSE /\ login' = [login EXCEPT !.stage = "idle", !.loading = FALSE]
            /\ alert' = "loginFailed"
            /\ emitted' = <<>>
            /\ UNCHANGED <<store, s, isMounted, navigationInterval, navClosure,
                           routeUpdateThrottle, pollInterval, locationUpdateCount>>
    /\ UNCHANGED <<sock, prompts, onceConnect, retryTimers, pendingAcks, pendingPickupRoute,
                   pendingNav, userDataTimers, logoutPending, pendingSaves, initialRoute>>

\* ------------------------------------------------------------ specification
\* the ride's own operations: request, accept, reject, OTP, start, complete,
\* and the backend's events about the ride
Lifecycle ==
    \/ \E data \in RequestPayloads : NewRideRequest(data)
    \/ PromptAccept
    \/ PromptReject
    \/ \E i \in 1..MaxInFlight, response \in AckResponses : AcceptAck(i, response)
    \/ \E i \in 1..MaxInFlight, result \in AnyRouteResult : PickupRouteResolves(i, result)
    \/ \E i \in 1..MaxInFlight : UserDataTimerFires(i)
    \/ OpenOtpModal
    \/ CancelOtpModal
    \/ \E code \in InputOtps : TypeOtp(code)
    \/ ConfirmOTP
    \/ \E i \in 1..MaxInFlight, result \in AnyRouteResult : NavRouteResolves(i, result)
    \/ CompleteRide
    \/ \E rideId \in RideIds, otp \in EventOtps : RideOTP(rideId, otp)
    \/ \E rideId \in RideIds : RideCancelled(rideId)
    \/ \E rideId \in RideIds : RideAlreadyAccepted(rideId)

\* the part of the lifecycle up to the acceptance of a ride
Offer ==
    \/ \E data \in RequestPayloads : NewRideRequest(data)
    \/ PromptAccept
    \/ PromptReject
    \/ \E i \in 1..MaxInFlight, response \in AckResponses : AcceptAck(i, response)
    \/ \E i \in 1..MaxInFlight, result \in AnyRouteResult : PickupRouteResolves(i, result)
    \/ \E i \in 1..MaxInFlight : UserDataTimerFires(i)
    \/ \E rideId \in RideIds : RideCancelled(rideId)
    \/ \E rideId \in RideIds : RideAlreadyAccepted(rideId)

\* one ride, requested with its OTP, taken from the request to its completion or
\* cancellation
TripPayloads == {data \in RequestPayloads : data.rideId = "R1" /\ data.otp # NoOtp}

Trip ==
    \/ \E data \in TripPayloads : NewRideRequest(data)
    \/ PromptAccept
    \/ \E i \in 1..MaxInFlight, response \in AckResponses : AcceptAck(i, response)
    \/ \E i \in 1..MaxInFlight, result \in AnyRouteResult : PickupRouteResolves(i, result)
    \/ \E i \in 1..MaxInFlight : UserDataTimerFires(i)
    \/ OpenOtpModal
    \/ \E code \in InputOtps : TypeOtp(code)
    \/ ConfirmOTP
    \/ \E i \in 1..MaxInFlight, result \in AnyRouteResult : NavRouteResolves(i, result)
    \/ CompleteRide
    \/ \E rideId \in RideIds : RideCancelled(rideId)

\* one ride driven from its request to its completion
Drive ==
    \/ \E data \in TripPayloads : NewRideRequest(data)
    \/ PromptAccept
    \/ \E i \in 1..MaxInFlight, response \in AckResponses : AcceptAck(i, response)
    \/ OpenOtpModal
    \/ \E code \in InputOtps : TypeOtp(code)
    \/ ConfirmOTP
    \/ \E i \in 1..MaxInFlight, result \in AnyRouteResult : NavRouteResolves(i, result)
    \/ CompleteRide

Passenger ==
    \/ \E c \in UserCoords : UserLiveLocationUpdate(c)
    \/ \E c \in UserCoords, uid \in UserIds \cup {NoId} : UserDataForDriver(c, uid)
    \/ PollTick

\* the buttons under a ride that is still offered after its alert was answered:
\* an accept that returned early (no connection, no driver id) leaves it so
Buttons ==
    \/ PressAccept
    \/ PressReject

Connection ==
    \/ Disconnect
    \/ \E i \in 1..MaxRetries : RetryTimerFires(i)

RouteTimers ==
    \/ NavTick
    \/ ThrottleFires

Positioning ==
    \/ \E c \in Coord : WatchSample(c)
    \/ \E c1, c2 \in Coord : WatchSamplesBackToBack(c1, c2)
    \/ \E i \in 1..MaxSaves, ok \in BOOLEAN : SaveLocationResolves(i, ok)

Session ==
    \/ LoadDriverInfo
    \/ \E c \in Coord : GetCurrentPosition(c)
    \/ LogoutPress
    \/ \E ok \in BOOLEAN : LogoutResolves(ok)

\* the ride lifecycle with the backend's events, on a connection that stays up
Next == Connect \/ Lifecycle \/ Passenger
Spec == InitAfterLogin /\ [][Next]_vars

\* offers and acceptances on a connection that drops and comes back
NextNet == Connect \/ Offer \/ Buttons \/ Connection
SpecNet == InitAfterLogin /\ [][NextNet]_vars

\* the same, where the socket's connect event, the timers and the callbacks that
\* are due do happen; a retry timer is never put off for good by the callbacks
\* of other accepts that are in flight
SpecNetFair ==
    /\ SpecNet
    /\ WF_vars(Connect)
    /\ SF_vars(\E i \in 1..MaxRetries : RetryTimerFires(i))
    /\ WF_vars(\E i \in 1..MaxInFlight, response \in AckResponses : AcceptAck(i, response))
    /\ WF_vars(\E i \in 1..MaxInFlight, result \in AnyRouteResult :
                  PickupRouteResolves(i, result))
    /\ WF_vars(\E i \in 1..MaxInFlight : UserDataTimerFires(i))

\* the lifecycle within the screen's own beginning and end: identity load, logout
NextSession == Connect \/ Lifecycle \/ Buttons \/ Session
SpecSession == Init /\ [][NextSession]_vars

\* the rides of a driver who moves
NextMove == Connect \/ Drive \/ Positioning \/ RouteTimers
SpecMove == InitAfterLogin /\ [][NextMove]_vars

\* updateVisibleRoute on its own: the values of the state it reads are any
\* location (or none), any full route of up to MaxRoute points and any rideStatus;
\* the visible route before the call is empty or the full route, and
\* nearestPointIndex is its initial 0
RideStatuses == {"idle", "onTheWay", "accepted", "started", "completed"}
Routes == UNION {[1..n -> Coord] : n \in 0..MaxRoute}

InitRoute ==
    \E loc \in {NoCoord} \cup Coord, full \in Routes, status \in RideStatuses,
       shown \in BOOLEAN :
        /\ s = [RegisterEffect(InitState(TheDriver, loc)) EXCEPT
                   !.rideStatus = status, !.fullRouteCoords = full,
                   !.visibleRouteCoords = IF shown THEN full ELSE <<>>]
        /\ emitted = <<>> /\ alert = "none" /\ store = Keys
        /\ isMounted = TRUE /\ sock = "connecting"
        /\ navigationInterval = "null" /\ navClosure = NoClosure
        /\ routeUpdateThrottle = "null"
        /\ prompts = <<>> /\ onceConnect = <<>> /\ retryTimers = <<>>
        /\ pendingAcks = <<>> /\ pendingPickupRoute = <<>> /\ pendingNav = <<>>
        /\ userDataTimers = <<>> /\ logoutPending = FALSE /\ pollInterval = NoId
        /\ locationUpdateCount = 0 /\ pendingSaves = <<>>
        /\ initialRoute = "LoginScreen" /\ login = NoLogin

NextRoute == CallUpdateVisibleRoute
SpecRoute == InitRoute /\ [][NextRoute]_vars

\* one ride with every way out of it and the passenger-location poll, from mount
\* to unmount
NextPoll ==
    \/ Connect
    \/ Trip
    \/ PromptReject
    \/ \E rideId \in RideIds : RideAlreadyAccepted(rideId)
    \/ PollTick
    \/ Session
SpecPoll == Init /\ [][NextPoll]_vars

\* the login screen, from the Login button to Screen1
SignIn ==
    \/ \E filled \in BOOLEAN : LoginPress(filled)
    \/ \E granted \in BOOLEAN : PermissionResolves(granted)
    \/ \E ok \in BOOLEAN, c \in Coord, code \in 1..3 : PositionResolves(ok, c, code)
    \/ \E outcome \in LoginOutcomes : LoginResponds(outcome)

\* the app from its launch: checkAuth, the login, and Screen1 as either mounts it
NextApp ==
    \/ \E outcome \in AuthOutcomes : CheckAuth(outcome)
    \/ SignIn
    \/ LoadDriverInfo
    \/ \E c \in Coord : GetCurrentPosition(c)
    \/ Connect
    \/ Positioning
SpecApp == InitLaunch /\ [][NextApp]_vars

\* the watch's callback for a sample that arrives while no ride is held
IdleSample(c) == ~RideHeld /\ WatchSample(c)

\* the rides of a driver who moves only between rides: every sample of the
\* watch arrives while no ride is held
NextIdleMove ==
    \/ Connect
    \/ Drive
    \/ \E c \in Coord : IdleSample(c)
    \/ \E i \in 1..MaxSaves, ok \in BOOLEAN : SaveLocationResolves(i, ok)
SpecIdleMove == InitAfterLogin /\ [][NextIdleMove]_vars

\* an acknowledgement that names the passenger
AckWithUser ==
    \E i \in 1..MaxInFlight, response \in AckResponses :
        response.userId \in UserIds /\ AcceptAck(i, response)

\* one ride at a time, from its request to its completion, every acknowledgement
\* naming the passenger, on a connection that drops and comes back
NextKnownUser ==
    \/ Connect
    \/ Disconnect
    \/ \E data \in TripPayloads : NewRideRequest(data)
    \/ PromptAccept
    \/ AckWithUser
    \/ \E i \in 1..MaxInFlight, result \in AnyRouteResult : PickupRouteResolves(i, result)
    \/ \E i \in 1..MaxInFlight : UserDataTimerFires(i)
    \/ \E c \in UserCoords, uid \in UserIds \cup {NoId} : UserDataForDriver(c, uid)
    \/ OpenOtpModal
    \/ \E code \in InputOtps : TypeOtp(code)
    \/ ConfirmOTP
    \/ \E i \in 1..MaxInFlight, result \in AnyRouteResult : NavRouteResolves(i, result)
    \/ CompleteRide
SpecKnownUser == InitAfterLogin /\ [][NextKnownUser]_vars

\* ============================================================== properties

\* the four exit operations of a ride
RejectOp == PromptReject \/ PressReject
CancelOp == \E rideId \in RideIds : RideHeld /\ ride.rideId = rideId /\ RideCancelled(rideId)
PreemptOp ==
    \E rideId \in RideIds : RideHeld /\ ride.rideId = rideId /\ RideAlreadyAccepted(rideId)
ExitOp == RejectOp \/ CompleteRide \/ CancelOp \/ PreemptOp

\* C1: every exit operation (rejectRide, completeRide, rideCancelled and
\* rideAlreadyAccepted for the held ride) leaves rideStatus idle and no ride held.
C1_ExitLeavesIdle == [][ExitOp => (rideStatus' = "idle" /\ ~RideHeld')]_vars

\* C2: every exit operation leaves userData and userLocation none, travelledKm 0
\* and both route arrays empty.
C2_ExitClearsRideState ==
    [][ExitOp => /\ userData' = NoUserData
                 /\ userLocation' = NoCoord
                 /\ travelledKm' = 0
                 /\ fullRouteCoords' = <<>>
                 /\ visibleRouteCoords' = <<>>]_vars

\* C3: rideStatus changes only along idle->offered->accepted->started->completed->idle
\* or from offered, accepted or started to idle.
AllowedEdges ==
    {<<"idle", "onTheWay">>, <<"onTheWay", "accepted">>, <<"accepted", "started">>,
     <<"started", "completed">>, <<"completed", "idle">>, <<"onTheWay", "idle">>,
     <<"accepted", "idle">>, <<"started", "idle">>}

C3_StatusEdges ==
    [][rideStatus' # rideStatus => <<rideStatus, rideStatus'>> \in AllowedEdges]_vars

\* C4: rideStatus offered, accepted or started implies a ride is held, and
\* rideStatus idle implies none is.
C4_StatusPairedWithRide ==
    /\ rideStatus \in {"onTheWay", "accepted", "started"} => RideHeld
    /\ rideStatus = "idle" => ~RideHeld

\* C5 as stated: confirmOTP moves rideStatus to started exactly when the entered
\* code string-equals the ride's otp; otherwise the status stays, an error is shown
\* and no ride start is under way.
OtpErrors == {"invalidOtp", "otpNotReceived"}

C5_StartedIffEqual ==
    [][(ConfirmOTP /\ RideHeld) =>
          IF enteredOtp = ride.otp
          THEN rideStatus' = "started"
          ELSE rideStatus' = rideStatus /\ alert' \in OtpErrors
               /\ pendingNav' = pendingNav /\ emitted' = <<>>]_vars

\* C5 amended: confirmOTP moves rideStatus to started exactly when the ride's otp
\* is non-empty and the entered code string-equals it; otherwise the status stays,
\* an error is shown, nothing is emitted and no ride start is under way.
C5_StartedIffNonEmptyEqual ==
    [][(ConfirmOTP /\ RideHeld) =>
          IF ~Falsy(ride.otp) /\ enteredOtp = ride.otp
          THEN rideStatus' = "started" /\ Len(pendingNav') = Len(pendingNav) + 1
          ELSE rideStatus' = rideStatus /\ alert' \in OtpErrors
               /\ pendingNav' = pendingNav /\ emitted' = <<>>]_vars

\* a confirmOTP with the matching code has just run
C5_Witness ==
    /\ rideStatus = "started" /\ pendingNav # <<>>
    /\ ~otpModalVisible /\ enteredOtp = "" /\ alert = "none"

\* C6: while the ride's otp is unset or still the default of the request,
\* confirmOTP answers "OTP not received yet" for every code, keeps the status and
\* emits nothing.
C6_NoOtpYetRejected ==
    [][(ConfirmOTP /\ RideHeld /\ ride.otp \in {NoOtp, DefaultOtp}) =>
          /\ alert' = "otpNotReceived"
          /\ rideStatus' = rideStatus
          /\ pendingNav' = pendingNav
          /\ emitted' = <<>>]_vars

\* C7: an inbound ride event that is stale (no ride held, or another rideId)
\* leaves ride, rideStatus, userData and userLocation unchanged.
RideScoped == <<ride, rideStatus, userData, userLocation>>

StaleEvent ==
    \/ /\ ~RideHeld
       /\ \/ \E c \in UserCoords : UserLiveLocationUpdate(c)
          \/ \E c \in UserCoords, uid \in UserIds \cup {NoId} : UserDataForDriver(c, uid)
    \/ \E rideId \in RideIds :
          /\ ride.rideId # rideId
          /\ \/ \E otp \in EventOtps : RideOTP(rideId, otp)
             \/ RideCancelled(rideId)
             \/ RideAlreadyAccepted(rideId)

C7_StaleEventsIgnored == [][StaleEvent => RideScoped' = RideScoped]_vars

\* C8: the route-truncation interval runs only while rideStatus is started and a
\* ride is held.
C8_IntervalOnlyWhileStarted ==
    navigationInterval = "active" => (rideStatus = "started" /\ RideHeld)

\* C9: once unmounted, the acknowledgement callback and the two route
\* continuations change no state, start no timer and emit nothing.
Continuation ==
    \/ \E i \in 1..MaxInFlight, response \in AckResponses : AcceptAck(i, response)
    \/ \E i \in 1..MaxInFlight, result \in AnyRouteResult : PickupRouteResolves(i, result)
    \/ \E i \in 1..MaxInFlight, result \in AnyRouteResult : NavRouteResolves(i, result)

C9_NoContinuationAfterUnmount ==
    [][(~isMounted /\ Continuation) =>
          /\ emitted' = <<>>
          /\ s' = s
          /\ navigationInterval' = navigationInterval
          /\ userDataTimers' = userDataTimers]_vars

\* C10: once unmounted, neither the route-truncation interval, the debounce
\* timeout, the passenger-location poll nor the geolocation watch is active.
C10_NothingActiveAfterUnmount ==
    ~isMounted => /\ navigationInterval = "null"
                  /\ routeUpdateThrottle = "null"
                  /\ ~pollIntervalActive
                  /\ ~watchActive

\* C11: an acceptRide call with a known rideId, a known driverId and the channel
\* connected leaves rideStatus accepted and driverStatus onRide at once, before any
\* acknowledgement; an acknowledgement without success changes none of rideStatus,
\* driverStatus, userData; while the acknowledgement is outstanding nothing but an
\* operation on the ride (request, reject, cancel, pre-emption, OTP) takes the
\* status back, and userData stays none until an acknowledgement reports success.
AcceptCallConnected ==
    /\ isMounted /\ sock = "connected"
    /\ \/ PromptAccept /\ prompts[Len(prompts)].driverId # ""
       \/ PressAccept /\ driverId # ""
       \/ \E i \in 1..MaxRetries : RetryTimerFires(i) /\ retryTimers[i].driverId # ""

AckWithoutSuccess ==
    \E i \in 1..MaxInFlight, response \in AckResponses :
        ~response.success /\ AcceptAck(i, response)

AckWithSuccess ==
    \E i \in 1..MaxInFlight, response \in AckResponses :
        response.success /\ AcceptAck(i, response)

RideOperation ==
    \/ \E data \in RequestPayloads : NewRideRequest(data)
    \/ RejectOp
    \/ \E rideId \in RideIds : RideCancelled(rideId) \/ RideAlreadyAccepted(rideId)
    \/ ConfirmOTP

C11_AcceptIsOptimistic ==
    [][/\ AcceptCallConnected =>
            /\ rideStatus' = "accepted" /\ driverStatus' = "onRide"
            /\ userData' = userData
            /\ Len(pendingAcks') = Len(pendingAcks) + 1
       /\ AckWithoutSuccess =>
            /\ rideStatus' = rideStatus /\ driverStatus' = driverStatus
            /\ userData' = userData
            /\ emitted' = <<>>
       /\ (rideStatus = "accepted" /\ driverStatus = "onRide" /\ ~RideOperation) =>
            (rideStatus' = "accepted" /\ driverStatus' = "onRide")
       /\ (~userData.present /\ userData'.present) => AckWithSuccess]_vars

\* an acknowledgement without success has been handled after an accept
C11_Witness ==
    /\ rideStatus = "accepted" /\ driverStatus = "onRide" /\ RideHeld
    /\ ~isLoading /\ ~userData.present
    /\ pendingAcks = <<>> /\ pendingPickupRoute = <<>> /\ userDataTimers = <<>>

\* C12: acceptRide for a ride while the channel is disconnected changes no state of
\* the screen, emits nothing, asks the socket to connect and arms exactly one retry;
\* the connect event turns each armed retry into one 1 s timer; a timer that fires
\* on a connected channel emits exactly one acceptRide for that ride and is spent,
\* one that fires on a channel that is down again re-arms itself and emits nothing;
\* no step emits more than one acceptRide, and none is emitted but by an accept
\* call. Once the channel stays connected every armed retry is spent.
AcceptCallDisconnected ==
    /\ sock # "connected"
    /\ \/ PromptAccept /\ prompts[Len(prompts)].driverId # ""
       \/ PressAccept /\ driverId # ""

AcceptEmissions(msgs, rideId) ==
    Cardinality({k \in DOMAIN msgs : msgs[k].type = "acceptRide" /\ msgs[k].rideId = rideId})

C12_RetriedOnceAfterConnect ==
    /\ [][/\ AcceptCallDisconnected =>
               /\ s' = s /\ emitted' = <<>> /\ pendingAcks' = pendingAcks
               /\ sock' = "connecting"
               /\ Len(onceConnect') = Len(onceConnect) + 1
               /\ retryTimers' = retryTimers
          /\ Connect =>
               /\ retryTimers' = retryTimers \o onceConnect /\ onceConnect' = <<>>
               /\ \A rideId \in RideIds : AcceptEmissions(emitted', rideId) = 0
          /\ \A i \in 1..MaxRetries : RetryTimerFires(i) =>
               IF sock = "connected"
               THEN /\ AcceptEmissions(emitted', retryTimers[i].rideId) = 1
                    /\ Retries' = Retries - 1
               ELSE /\ emitted' = <<>> /\ s' = s
                    /\ Retries' = Retries
                    /\ onceConnect' = Append(onceConnect, retryTimers[i])
          /\ \A rideId \in RideIds :
               /\ AcceptEmissions(emitted', rideId) <= 1
               /\ AcceptEmissions(emitted', rideId) = 1 =>
                    \/ PromptAccept \/ PressAccept
                    \/ \E i \in 1..MaxRetries : RetryTimerFires(i)]_vars
    /\ (<>[](sock = "connected")) => [](Retries > 0 => <>(Retries = 0))

\* an accept made while disconnected has its retry timer running after the connect
C12_Witness ==
    /\ retryTimers # <<>> /\ onceConnect = <<>> /\ sock = "connected"
    /\ rideStatus = "onTheWay" /\ RideHeld /\ pendingAcks = <<>>

\* what one successful acknowledgement for ride R with userId U and pickup P does:
\* userData is stored with userId U and userLocation is P; its continuation emits
\* exactly one driverAcceptedRide{R, U} (at once when the driver's location was
\* unknown, else when the pickup route fetch has returned) and with it arms one
\* timer; the timer emits exactly one getUserDataForDriver{R} and nothing else;
\* no other step emits driverAcceptedRide.
Emissions(msgs, type) == {k \in DOMAIN msgs : msgs[k].type = type}

AcceptedRideMsg(msgs, rideId, userId) ==
    /\ Cardinality(Emissions(msgs, "driverAcceptedRide")) = 1
    /\ \A k \in Emissions(msgs, "driverAcceptedRide") :
          msgs[k].rideId = rideId /\ msgs[k].userId = userId

AckChain ==
    /\ \A i \in 1..MaxInFlight, response \in AckResponses :
          (isMounted /\ response.success /\ AcceptAck(i, response)) =>
             /\ userData'.present /\ userData'.userId = response.userId
             /\ userLocation' = response.pickup
             /\ Emissions(emitted', "getUserDataForDriver") = {}
             /\ IF pendingAcks[i].location = NoCoord
                THEN /\ AcceptedRideMsg(emitted', pendingAcks[i].rideId, response.userId)
                     /\ userDataTimers' = Append(userDataTimers, pendingAcks[i].rideId)
                     /\ pendingPickupRoute' = pendingPickupRoute
                ELSE /\ Emissions(emitted', "driverAcceptedRide") = {}
                     /\ userDataTimers' = userDataTimers
                     /\ Len(pendingPickupRoute') = Len(pendingPickupRoute) + 1
                     /\ LET p == pendingPickupRoute'[Len(pendingPickupRoute')]
                        IN p.rideId = pendingAcks[i].rideId /\ p.userId = response.userId
    /\ \A i \in 1..MaxInFlight, result \in AnyRouteResult :
          PickupRouteResolves(i, result) =>
             /\ AcceptedRideMsg(emitted', pendingPickupRoute[i].rideId,
                                pendingPickupRoute[i].userId)
             /\ Emissions(emitted', "getUserDataForDriver") = {}
             /\ userDataTimers' = Append(userDataTimers, pendingPickupRoute[i].rideId)
    /\ \A i \in 1..MaxInFlight :
          UserDataTimerFires(i) =>
             /\ emitted' = <<Msg("getUserDataForDriver", NoId, userDataTimers[i], NoId,
                                 NoCoord, 0)>>
             /\ Len(userDataTimers') = Len(userDataTimers) - 1
    /\ Emissions(emitted', "driverAcceptedRide") # {} =>
          \/ \E i \in 1..MaxInFlight, response \in AckResponses :
                response.success /\ AcceptAck(i, response)
          \/ \E i \in 1..MaxInFlight, result \in AnyRouteResult :
                PickupRouteResolves(i, result)

\* C13 as stated: the successful acknowledgement stores userData and userLocation
\* and leads to exactly one driverAcceptedRide{R, U}, and the one
\* getUserDataForDriver{R} is the delayed one that follows it: no
\* getUserDataForDriver is emitted but by the 1 s timer of the acknowledgement.
C13_OneUserDataRequest ==
    [][/\ AckChain
       /\ Emissions(emitted', "getUserDataForDriver") # {} =>
             \E i \in 1..MaxInFlight : UserDataTimerFires(i)]_vars

\* C13 amended: the same for the acknowledgement's own chain; besides it the
\* passenger-location poll emits getUserDataForDriver for the held ride, first in
\* the very step that makes rideStatus accepted, then on its interval.
C13_AckChainEmitsOnce ==
    [][/\ AckChain
       /\ Emissions(emitted', "getUserDataForDriver") # {} =>
             \/ \E i \in 1..MaxInFlight : UserDataTimerFires(i)
             \/ PollTick
             \/ /\ rideStatus' = "accepted" /\ RideHeld'
                /\ rideStatus # "accepted" \/ ride'.rideId # ride.rideId
                /\ emitted'[Len(emitted')] =
                      Msg("getUserDataForDriver", NoId, ride'.rideId, NoId, NoCoord, 0)]_vars

\* the delayed getUserDataForDriver of an acknowledged accept has just been emitted
C13_Witness ==
    /\ rideStatus = "accepted" /\ RideHeld /\ userData.present /\ userData.userId = "U1"
    /\ userLocation # NoCoord /\ ~isLoading
    /\ pendingAcks = <<>> /\ pendingPickupRoute = <<>> /\ userDataTimers = <<>>
    /\ emitted = <<Msg("getUserDataForDriver", NoId, ride.rideId, NoId, NoCoord, 0)>>
    /\ ride.routeCoords # <<>>

\* everything but the screen's state, the interval and the last step's output
Background ==
    <<isMounted, navClosure, routeUpdateThrottle, sock, prompts, onceConnect, retryTimers,
      pendingAcks, pendingPickupRoute, pendingNav, userDataTimers, logoutPending, store>>

\* C14: a rideCancelled event for the held ride, whatever the status, stops the
\* route-truncation interval, emits exactly one driverRideCancelled with that rideId
\* and nothing else, and leaves rideStatus idle with no ride held; a rideCancelled
\* for another rideId, or with no ride held, changes nothing and emits nothing.
C14_CancelForHeldRide ==
    [][\A rideId \in RideIds : RideCancelled(rideId) =>
          IF RideHeld /\ ride.rideId = rideId
          THEN /\ navigationInterval' = "null"
               /\ Len(emitted') = 1
               /\ emitted'[1].type = "driverRideCancelled" /\ emitted'[1].rideId = rideId
               /\ rideStatus' = "idle" /\ ~RideHeld'
          ELSE /\ s' = s /\ emitted' = <<>>
               /\ navigationInterval' = navigationInterval
               /\ Background' = Background]_vars

\* a ride whose route-truncation interval had been started has just been cancelled
C14_Witness ==
    /\ alert = "rideCancelled" /\ rideStatus = "idle" /\ ~RideHeld
    /\ navigationInterval = "null" /\ navClosure # NoClosure
    /\ Len(emitted) = 1 /\ emitted[1].type = "driverRideCancelled"
    /\ emitted[1].userId # NoId

\* C15: a rideAlreadyAccepted event for the held ride leaves rideStatus idle, no
\* ride held, driverStatus online and no passenger data, and emits nothing; the
\* event for another rideId, or with no ride held, changes nothing.
C15_PreemptedSilently ==
    [][\A rideId \in RideIds : RideAlreadyAccepted(rideId) =>
          IF RideHeld /\ ride.rideId = rideId
          THEN /\ rideStatus' = "idle" /\ ~RideHeld' /\ driverStatus' = "online"
               /\ userData' = NoUserData /\ userLocation' = NoCoord
               /\ emitted' = <<>>
               /\ Background' = Background
          ELSE /\ s' = s /\ emitted' = <<>>
               /\ navigationInterval' = navigationInterval
               /\ Background' = Background]_vars

\* an accepted ride with passenger data has just been taken by another driver
C15_Witness ==
    /\ alert = "rideTaken" /\ rideStatus = "idle" /\ ~RideHeld /\ emitted = <<>>
    /\ driverStatus = "online" /\ ~userData.present /\ ~isLoading
    /\ userDataTimers # <<>>

\* C16 (on a screen that the login mounted, so with the driver's id from its first
\* render): rejectRide on the offered ride R, from the request alert or from the Reject
\* button, emits exactly one message, rejectRide with rideId R and the driver's id,
\* leaves rideStatus idle with no ride held in the same step, and registers no
\* callback to wait for; rejectRide with no rideId changes no state and emits nothing.
Rejected(rideId) ==
    /\ emitted' = <<Msg("rejectRide", driverId, rideId, NoId, NoCoord, 0)>>
    /\ rideStatus' = "idle" /\ ~RideHeld'
    /\ pendingAcks' = pendingAcks /\ userDataTimers' = userDataTimers

C17_CompleteReportsDistance ==
    [][CompleteRide =>
          /\ navigationInterval' = "null"
          /\ Len(emitted') = 2
          /\ emitted'[1].type = "driverCompletedRide" /\ emitted'[2].type = "completeRide"
          /\ \A k \in 1..2 : /\ emitted'[k].rideId = ride.rideId
                             /\ emitted'[k].dist = travelledKm
                             /\ emitted'[k].driverId = driverId
          /\ travelledKm' = 0 /\ lastCoord' = NoCoord
          /\ fullRouteCoords' = <<>> /\ visibleRouteCoords' = <<>>
          /\ nearestPointIndex' = 0
          /\ ~RideHeld']_vars

\* a ride on which the driver moved has just been completed
C17_Witness ==
    /\ alert = "rideCompleted" /\ ~RideHeld /\ travelledKm = 0 /\ lastCoord = NoCoord
    /\ Len(emitted) = 2 /\ emitted[1].dist = MaxKm /\ emitted[2].dist = MaxKm
    /\ navigationInterval = "null" /\ navClosure # NoClosure

\* C18: confirmOTP with the matching code clears the OTP input and awaits the
\* pickup-to-drop route for the held ride; when the Route Service answers with a
\* non-empty route, fullRouteCoords and visibleRouteCoords are both that route, the
\* route-truncation interval is running, and exactly one message, driverStartedRide
\* with the rideId held at confirmOTP, is emitted; nothing else emits
\* driverStartedRide.
C18_StartShowsRoute ==
    [][/\ (ConfirmOTP /\ RideHeld /\ ~Falsy(ride.otp) /\ enteredOtp = ride.otp) =>
             /\ enteredOtp' = "" /\ emitted' = <<>>
             /\ Len(pendingNav') = Len(pendingNav) + 1
             /\ pendingNav'[Len(pendingNav')].rideId = ride.rideId
       /\ \A i \in 1..MaxInFlight, result \in AnyRouteResult :
             (isMounted /\ result.ok /\ NavRouteResolves(i, result)) =>
                /\ result.coords # <<>>
                /\ fullRouteCoords' = result.coords /\ visibleRouteCoords' = result.coords
                /\ navigationInterval' = "active"
                /\ Len(emitted') = 1
                /\ emitted'[1].type = "driverStartedRide"
                /\ emitted'[1].rideId = pendingNav[i].rideId
                /\ Len(pendingNav') = Len(pendingNav) - 1
       /\ Emissions(emitted', "driverStartedRide") # {} =>
             \E i \in 1..MaxInFlight, result \in AnyRouteResult : NavRouteResolves(i, result)]_vars

\* the route of a ride started with its OTP has just arrived
C18_Witness ==
    /\ alert = "otpVerified" /\ rideStatus = "started" /\ RideHeld /\ enteredOtp = ""
    /\ navigationInterval = "active"
    /\ Len(fullRouteCoords) > 1 /\ visibleRouteCoords = fullRouteCoords
    /\ Len(emitted) = 1 /\ emitted[1].type = "driverStartedRide"
    /\ emitted[1].rideId = ride.rideId

\* what updateVisibleRoute shows for position cur on route routeCoords: cur, then
\* the route from its point nearest to cur
Truncated(cur, routeCoords) ==
    <<cur>> \o SubSeq(routeCoords, findNearestPointOnRoute(cur, routeCoords).index,
                      Len(routeCoords))

\* C19: while the ride is started, the interval runs and the full route is
\* non-empty, the debounced tick of the interval shows the driver's position of
\* that moment followed by the full route from its point nearest to that position:
\* it computes with the location, full route and rideStatus current at the tick.
C19_TickRetruncates ==
    [][(/\ ThrottleFires
        /\ navigationInterval = "active" /\ rideStatus = "started"
        /\ location # NoCoord /\ fullRouteCoords # <<>>) =>
           visibleRouteCoords' = Truncated(location, fullRouteCoords)]_vars

\* C20: updateVisibleRoute, when rideStatus is started, the location L is known
\* and the full route has N > 0 points, sets nearestPointIndex to the (0-based)
\* index i of a point of the route nearest to L and visibleRouteCoords to L
\* followed by the route from that point on, N - i + 1 points beginning with L;
\* otherwise it leaves visibleRouteCoords and nearestPointIndex as they were.
C20_VisibleRouteFromNearest ==
    [][CallUpdateVisibleRoute =>
          IF rideStatus = "started" /\ location # NoCoord /\ fullRouteCoords # <<>>
          THEN \E i \in 1..Len(fullRouteCoords) :
                  /\ \A j \in 1..Len(fullRouteCoords) :
                        haversine(location, fullRouteCoords[i])
                           <= haversine(location, fullRouteCoords[j])
                  /\ nearestPointIndex' = i - 1
                  /\ visibleRouteCoords' =
                        <<location>> \o SubSeq(fullRouteCoords, i, Len(fullRouteCoords))
                  /\ Len(visibleRouteCoords') = Len(fullRouteCoords) - (i - 1) + 1
                  /\ visibleRouteCoords'[1] = location
          ELSE /\ visibleRouteCoords' = visibleRouteCoords
               /\ nearestPointIndex' = nearestPointIndex]_vars

\* the call has cut a full route of MaxRoute points down to its last point
C20_Witness ==
    /\ rideStatus = "started" /\ location # NoCoord
    /\ Len(fullRouteCoords) = MaxRoute /\ nearestPointIndex = MaxRoute - 1
    /\ visibleRouteCoords = <<location, fullRouteCoords[MaxRoute]>>

\* C21: for every known position and every route of N >= 1 points,
\* findNearestPointOnRoute returns an index within the route (0..N-1 in the
\* source's counting) and the distance of that point, which is the least of the
\* N distances; among several points at that distance it returns the first; for
\* a route of one point it returns that point; for an empty route it returns null.
C21_NearestIsFirstMinimum ==
    location # NoCoord =>
        LET nearestPoint == findNearestPointOnRoute(location, fullRouteCoords)
            N == Len(fullRouteCoords)
        IN IF N = 0 THEN nearestPoint = NoPoint
           ELSE /\ nearestPoint # NoPoint
                /\ nearestPoint.index - 1 \in 0..(N - 1)
                /\ nearestPoint.distance = haversine(location, fullRouteCoords[nearestPoint.index])
                /\ \A j \in 1..N :
                      /\ nearestPoint.distance <= haversine(location, fullRouteCoords[j])
                      /\ j < nearestPoint.index =>
                            nearestPoint.distance < haversine(location, fullRouteCoords[j])
                /\ N = 1 => nearestPoint.index - 1 = 0

\* updateVisibleRoute has used the result for a route whose second and third
\* points are equally near and nearer than the first
C21_Witness ==
    /\ rideStatus = "started" /\ location # NoCoord /\ Len(fullRouteCoords) = 3
    /\ haversine(location, fullRouteCoords[2]) = haversine(location, fullRouteCoords[3])
    /\ haversine(location, fullRouteCoords[2]) < haversine(location, fullRouteCoords[1])
    /\ nearestPointIndex = 1
    /\ visibleRouteCoords = <<location, fullRouteCoords[2], fullRouteCoords[3]>>

\* C22: from the handling of a disconnect event until the next connect event
\* driverStatus is offline: the disconnect leaves it offline, and while the
\* channel is still down nothing (the register-driver effect, rejectRide,
\* completeRide, a cancellation) sets it back to online or onRide.
C22_OfflineWhileDisconnected ==
    [][(/\ isMounted /\ sock' = "connecting"
        /\ Disconnect \/ (sock = "connecting" /\ driverStatus = "offline")) =>
           driverStatus' = "offline"]_vars

C24_ReconnectRegisters ==
    [][(Connect /\ isMounted /\ location # NoCoord /\ driverId # "") =>
          /\ emitted' = <<Msg("registerDriver", driverId, NoId, NoId, location, 0)>>
          /\ driverStatus' = "online"
          /\ s'.isRegistered /\ s'.socketConnected]_vars

\* the driver has been registered again by the connect that followed a disconnect
\* under an accepted ride (the disconnect had cleared the passenger's data)
C24_Witness ==
    /\ sock = "connected" /\ s.socketConnected /\ driverStatus = "online"
    /\ Len(emitted) = 1 /\ emitted[1].type = "registerDriver"
    /\ emitted[1].driverId = TheDriver /\ emitted[1].loc = location
    /\ RideHeld /\ Len(ride.routeCoords) > 0 /\ userData = NoUserData

\* rideStatus of a ride that is offered, accepted or started
LiveStatuses == {"onTheWay", "accepted", "started"}

\* C25: once a ride is held with rideStatus onTheWay (offered), accepted or
\* started, the held rideId stays the same until an exit operation (reject,
\* complete, rideCancelled or rideAlreadyAccepted for it); a newRideRequest with
\* another rideId in between neither replaces the held ride nor changes
\* rideStatus.
C25_LiveRideNotReplaced ==
    [][(RideHeld /\ rideStatus \in LiveStatuses /\ ~ExitOp) =>
          /\ ride'.rideId = ride.rideId
          /\ \A data \in RequestPayloads :
                (data.rideId # ride.rideId /\ NewRideRequest(data)) =>
                    rideStatus' = rideStatus]_vars

\* C26: there is at most one passenger-location poll interval, and one is set
\* only while the screen is mounted and holds a ride with rideStatus accepted,
\* for that ride; so it is cleared when the ride is completed, cancelled,
\* pre-empted or rejected and when the screen unmounts, and a poll tick emits
\* getUserDataForDriver, once, for the ride held at that moment.
C26_PollOnlyWhileAccepted ==
    /\ [](pollIntervalActive =>
             /\ isMounted /\ RideHeld /\ rideStatus = "accepted"
             /\ pollInterval = ride.rideId)
    /\ [][ExitOp => ~pollIntervalActive']_vars
    /\ [][~isMounted' => ~pollIntervalActive']_vars
    /\ [][PollTick =>
             /\ RideHeld /\ rideStatus = "accepted"
             /\ emitted' =
                   <<Msg("getUserDataForDriver", NoId, ride.rideId, NoId, NoCoord, 0)>>]_vars

\* the poll has ticked under an accepted ride whose pickup route is shown
C26_Witness ==
    /\ pollIntervalActive /\ pollInterval = ride.rideId /\ rideStatus = "accepted"
    /\ Len(ride.routeCoords) > 0 /\ userDataTimers = <<>>
    /\ emitted = <<Msg("getUserDataForDriver", NoId, ride.rideId, NoId, NoCoord, 0)>>

\* C27: every position sample of the watch becomes the current location, and
\* the counter of samples, 0 at mount, goes up by one with each sample and with
\* nothing else; a sample starts the POST to /driver-location/update if and only
\* if the counter has reached a multiple of SaveEvery with it, so the k-th sample
\* is persisted exactly when k is a multiple of 5, also when two samples come
\* one right after the other; a driverLocationUpdate is
\* emitted only by the continuation of such a POST, with that sample's position.
C27_EveryFifthSamplePersisted ==
    [][/\ \A c1, c2 \in Coord :
             WatchSamplesBackToBack(c1, c2) =>
                /\ location' = c2
                /\ locationUpdateCount' = (locationUpdateCount + 2) % SaveEvery
                /\ Emissions(emitted', "driverLocationUpdate") = {}
                /\ IF (locationUpdateCount + 1) % SaveEvery = 0
                   THEN /\ Len(pendingSaves') = Len(pendingSaves) + 1
                        /\ pendingSaves'[Len(pendingSaves')].location = c1
                   ELSE IF (locationUpdateCount + 2) % SaveEvery = 0
                   THEN /\ Len(pendingSaves') = Len(pendingSaves) + 1
                        /\ pendingSaves'[Len(pendingSaves')].location = c2
                   ELSE pendingSaves' = pendingSaves
       /\ \A c \in Coord :
             WatchSample(c) =>
                /\ location' = c
                /\ locationUpdateCount' = (locationUpdateCount + 1) % SaveEvery
                /\ Emissions(emitted', "driverLocationUpdate") = {}
                /\ IF (locationUpdateCount + 1) % SaveEvery = 0
                   THEN /\ Len(pendingSaves') = Len(pendingSaves) + 1
                        /\ pendingSaves'[Len(pendingSaves')].location = c
                   ELSE pendingSaves' = pendingSaves
       /\ (locationUpdateCount' # locationUpdateCount \/ Len(pendingSaves') > Len(pendingSaves))
             => \/ \E c \in Coord : WatchSample(c)
                \/ \E c1, c2 \in Coord : WatchSamplesBackToBack(c1, c2)
       /\ Emissions(emitted', "driverLocationUpdate") # {} =>
             \E i \in 1..MaxSaves :
                /\ SaveLocationResolves(i, TRUE) /\ sock = "connected"
                /\ Len(emitted') = 1 /\ emitted'[1].loc = pendingSaves[i].location]_vars

\* the fifth sample of the session has been persisted and sent over the channel
C27_Witness ==
    /\ locationUpdateCount = 0 /\ pendingSaves = <<>> /\ sock = "connected"
    /\ Len(emitted) = 1 /\ emitted[1].type = "driverLocationUpdate"
    /\ emitted[1].loc = location /\ emitted[1].driverId = TheDriver

\* the distance from the last sample counted, none before the first
Leg(from, to) == IF from = NoCoord THEN 0 ELSE haversine(from, to)

\* C28: from the baseline travelledKm = 0, lastCoord = none, the accumulator
\* after samples S0..Sn is the sum of the distances between consecutive
\* samples: every sample adds its distance from the sample before it (the first
\* adds nothing) and becomes the last sample, also when two samples are
\* delivered back to back.
C28_DistanceIsPathLength ==
    [][/\ \A c \in Coord :
             WatchSample(c) =>
                travelledKm' = travelledKm + Leg(lastCoord, c) /\ lastCoord' = c
       /\ \A c1, c2 \in Coord :
             WatchSamplesBackToBack(c1, c2) =>
                /\ travelledKm' = travelledKm + Leg(lastCoord, c1) + haversine(c1, c2)
                /\ lastCoord' = c2]_vars

\* C29: an authenticated session needs all three stored keys. checkAuth mounts
\* Screen1 only if authToken, driverId and driverName are all in the store, and
\* whenever the store can be read and written it makes Screen1 the initial route
\* if and only if they are; otherwise LoginScreen is shown (after a storage
\* error with the store cleared). loadDriverInfo of Screen1 sets the driver's
\* identity and driverStatus online only if all three keys are present, and
\* otherwise clears the store and leaves for LoginScreen.
C29_SessionNeedsAllKeys ==
    [][/\ \A outcome \in AuthOutcomes :
             CheckAuth(outcome) =>
                /\ isMounted' => Keys \subseteq store
                /\ outcome = "ok" =>
                      /\ initialRoute' = "Screen1" <=> Keys \subseteq store
                      /\ isMounted' <=> Keys \subseteq store
                      /\ store' = store
                /\ initialRoute' \in {"Screen1", "LoginScreen"}
                /\ initialRoute' = "LoginScreen" => ~(Keys \subseteq store')
                /\ ~isMounted' => login'.shown /\ initialRoute' = "LoginScreen"
       /\ LoadDriverInfo =>
             IF Keys \subseteq store
             THEN /\ driverId' = TheDriver /\ driverStatus' = "online"
                  /\ isMounted' /\ ~login'.shown /\ store' = store
             ELSE /\ store' = {} /\ ~isMounted' /\ login'.shown
                  /\ s' = s]_vars

\* Screen1, mounted by the launch with all three keys stored, has loaded the
\* driver's identity from the store
C29_Witness ==
    /\ initialRoute = "Screen1" /\ isMounted /\ store = Keys /\ ~login.shown
    /\ driverId = TheDriver /\ driverStatus = "online"

\* C30: getLocation makes at most retries + 1 position requests (3 with the
\* default); the first position it gets is returned with no further request,
\* and handleLogin goes on to the login request with it; a failure before the
\* last attempt leads to one more request; after retries + 1 failures in a row
\* getLocation throws, and handleLogin has then sent no login request, stores no
\* credentials, shows an alert and ends with loading = false.
C30_LocationRetriesBounded ==
    /\ [](login.requests <= DefaultRetries + 1)
    /\ [][\A ok \in BOOLEAN, c \in Coord, code \in 1..3 :
             PositionResolves(ok, c, code) =>
                /\ login.requests \in 1..(DefaultRetries + 1) /\ ~login.posted
                /\ IF ok
                   THEN /\ login'.requests = login.requests
                        /\ login'.coords = c /\ login'.stage = "posting" /\ login'.loading
                   ELSE IF login.requests = DefaultRetries + 1
                   THEN /\ login'.requests = login.requests
                        /\ login'.stage = "idle" /\ ~login'.loading /\ ~login'.posted
                        /\ store' = store /\ ~isMounted' /\ alert' # "none"
                   ELSE /\ login'.requests = login.requests + 1
                        /\ login'.stage = "locating" /\ login'.loading /\ ~login'.posted
                        /\ store' = store]_vars

\* the third position request of a login has timed out
C30_Witness ==
    /\ login.shown /\ login.stage = "idle" /\ ~login.loading
    /\ login.requests = DefaultRetries + 1 /\ ~login.posted
    /\ alert = "gpsTimeout" /\ ~isMounted /\ ~(Keys \subseteq store)

\* C31: when no ride is held any more at the time the Route Service answers a
\* confirmOTP (the ride was cancelled, pre-empted or completed during the
\* await), the continuation leaves rideStatus idle or completed, both
\* route arrays empty and the route-truncation interval off, and emits no
\* driverStartedRide.
C31_ResetDuringStartHonoured ==
    [][\A i \in 1..MaxInFlight, result \in AnyRouteResult :
          (/\ isMounted /\ NavRouteResolves(i, result)
           /\ ~RideHeld) =>
              /\ rideStatus' \in {"idle", "completed"}
              /\ fullRouteCoords' = <<>> /\ visibleRouteCoords' = <<>>
              /\ navigationInterval' = "null"
              /\ Emissions(emitted', "driverStartedRide") = {}]_vars

\* C32: a success acknowledgement that arrives when the ride it was emitted for
\* has been reset to idle (rejected, cancelled or pre-empted, no ride held)
\* stores no passenger data and no passenger location, starts no pickup-route
\* fetch, and neither emits driverAcceptedRide nor arms the delayed
\* getUserDataForDriver.
C32_LateAckIgnored ==
    [][\A i \in 1..MaxInFlight, response \in AckResponses :
          (/\ isMounted /\ response.success /\ AcceptAck(i, response)
           /\ ~RideHeld /\ rideStatus = "idle") =>
              /\ userData' = userData /\ userLocation' = userLocation
              /\ pendingPickupRoute' = pendingPickupRoute
              /\ userDataTimers' = userDataTimers
              /\ Emissions(emitted', "driverAcceptedRide") = {}]_vars

\* an accept call, from a retry timer or from the request alert, for a ride
\* that is not the held ride any more
StaleAccept(rideId) ==
    /\ isMounted /\ ride.rideId # rideId
    /\ \/ \E i \in 1..MaxRetries : RetryTimerFires(i) /\ retryTimers[i].rideId = rideId
       \/ PromptAccept /\ prompts[Len(prompts)].rideId = rideId

\* C33: an accept retry that fires, or an Accept of the request alert that is
\* pressed, for a ride that is no longer held (it was rejected, cancelled,
\* pre-empted or replaced meanwhile) does not make rideStatus accepted, does not
\* make driverStatus onRide and emits no acceptRide for that rideId.
C33_StaleAcceptIgnored ==
    [][\A rideId \in RideIds :
          StaleAccept(rideId) =>
             /\ rideStatus' = "accepted" => rideStatus = "accepted"
             /\ driverStatus' = "onRide" => driverStatus = "onRide"
             /\ AcceptEmissions(emitted', rideId) = 0]_vars

\* C34: whenever the screen is mounted and the channel is connected,
\* driverStatus is onRide if and only if rideStatus is accepted or started; so
\* a disconnect and reconnect during an accepted or started ride ends with
\* driverStatus onRide.
C34_AvailabilityFromStatus ==
    (isMounted /\ sock = "connected") =>
        (driverStatus = "onRide" <=> rideStatus \in {"accepted", "started"})

\* C35: the distance that driverCompletedRide and completeRide carry is the
\* distance of the samples received while the ride was in progress; for a
\* driver who moved only while no ride was held, every completion reports 0.
C35_IdleMovementNotReported ==
    [][CompleteRide => \A k \in DOMAIN emitted' : emitted'[k].dist = 0]_vars

\* the messages by which the driver reports on a ride to its passenger
RideReports == {"driverStartedRide", "driverCompletedRide", "driverRideCancelled"}

\* C36: where every acknowledgement names the passenger, the held ride's pickup
\* route shows that its accept was acknowledged, with passenger userId U; every
\* driverStartedRide, driverCompletedRide and driverRideCancelled emitted for
\* the held ride from then on carries userId U, also after the channel has
\* disconnected and connected again.
C36_UserIdCarried ==
    [][\A k \in DOMAIN emitted' :
          (/\ emitted'[k].type \in RideReports
           /\ RideHeld /\ emitted'[k].rideId = ride.rideId
           /\ Len(ride.routeCoords) > 0) =>
              emitted'[k].userId \in UserIds]_vars

\* C37: confirmOTP with the matching code emits nothing itself and awaits the
\* route; when the Route Service fails or has no route, the continuation
\* changes no state (rideStatus stays started, empty route arrays stay empty),
\* starts no route-truncation interval, emits exactly one message,
\* driverStartedRide for the ride confirmed, and confirmOTP ends normally with
\* its "OTP Verified" alert.
C37_RouteFailureHandled ==
    [][/\ (ConfirmOTP /\ RideHeld /\ ~Falsy(ride.otp) /\ enteredOtp = ride.otp) =>
             /\ rideStatus' = "started" /\ emitted' = <<>>
             /\ navigationInterval' = navigationInterval
       /\ \A i \in 1..MaxInFlight, result \in AnyRouteResult :
             (~result.ok /\ NavRouteResolves(i, result)) =>
                /\ s' = s
                /\ rideStatus = "started" => rideStatus' = "started"
                /\ fullRouteCoords = <<>> => fullRouteCoords' = <<>>
                /\ visibleRouteCoords = <<>> => visibleRouteCoords' = <<>>
                /\ navigationInterval' = navigationInterval /\ navClosure' = navClosure
                /\ Len(emitted') = 1
                /\ emitted'[1].type = "driverStartedRide"
                /\ emitted'[1].rideId = pendingNav[i].rideId
                /\ alert' = "otpVerified"
                /\ Len(pendingNav') = Len(pendingNav) - 1]_vars

\* the Route Service has failed for a ride started with its OTP
C37_Witness ==
    /\ alert = "otpVerified" /\ rideStatus = "started" /\ RideHeld /\ ~otpModalVisible
    /\ fullRouteCoords = <<>> /\ visibleRouteCoords = <<>>
    /\ navigationInterval = "null" /\ pendingNav = <<>>
    /\ Len(emitted) = 1 /\ emitted[1].type = "driverStartedRide"
    /\ emitted[1].rideId = ride.rideId

\* C38: isLoading is true only while an acceptRide acknowledgement for the held
\* ride is outstanding; in particular it is false whenever rideStatus is idle
\* and whenever a ride has just been offered.
C38_LoadingOnlyWhileAckOutstanding ==
    /\ isLoading =>
          /\ RideHeld
          /\ \E i \in DOMAIN pendingAcks : pendingAcks[i].rideId = ride.rideId
    /\ rideStatus = "idle" => ~isLoading
    /\ alert = "newRideRequest" => ~isLoading

\* C39: when the logout request succeeds, handleLogout leaves none of
\* authToken, driverId and driverName in the store, disconnects the channel,
\* which the module's disconnect handler does not connect again, and leaves the
\* screen for LoginScreen; when the request fails, the store, the channel and
\* the screen stay as they were and an error alert is shown. Nothing but
\* handleLogout closes the channel.
C39_LogoutTearsDownOnSuccess ==
    [][/\ \A ok \in BOOLEAN :
             LogoutResolves(ok) =>
                IF ok
                THEN /\ store' \cap Keys = {}
                     /\ sock' = "closed"
                     /\ ~isMounted' /\ login'.shown
                     /\ emitted' = <<>>
                ELSE /\ store' = store /\ sock' = sock
                     /\ isMounted' = isMounted /\ login' = login
                     /\ alert' = "logoutError" /\ emitted' = <<>>
       /\ (sock # "closed" /\ sock' = "closed") => LogoutResolves(TRUE)]_vars

\* a registered driver on a connected channel has logged out
C39_Witness ==
    /\ ~isMounted /\ login.shown /\ store = {} /\ sock = "closed" /\ ~logoutPending
    /\ driverId = TheDriver /\ location # NoCoord
    /\ driverStatus = "offline" /\ ~s.socketConnected

====
